---- MODULE Spec2Model ----
(***************************************************************************)
(* A model of the voronoi_diagrams repository: Fortune's sweepline over a  *)
(* beachline AVL tree (trees/tree_vd.py), an event queue (events.py), a    *)
(* DCEL (doubly_connected_edge_list.py) whose vertices are indexed by a    *)
(* bounding volume hierarchy (trees/tree_bvh.py, trees/aabb.py).           *)
(*                                                                         *)
(* Objects are modelled as records in sequences ("heaps"); a reference is  *)
(* the index of the record, 0 is None.  Coordinates are exact rationals    *)
(* <<numerator, denominator>> in lowest terms; the sites are drawn from an *)
(* integer grid, on which two different values that the program compares   *)
(* with numpy.isclose are never within its tolerance, so isclose is the    *)
(* equality of the exact values.                                           *)
(***************************************************************************)
EXTENDS Integers, Sequences, FiniteSets, TLC

(***************************************************************************)
(* Bounds of the model.                                                    *)
(***************************************************************************)
MaxCoord == 2        \* sites of the diagram lie on the grid 0..MaxCoord squared
MaxSites == 4        \* length of the list of sites given to VoronoiDiagram
MaxBVHCoord == 1     \* points given to a stand-alone BVH lie on 0..MaxBVHCoord squared
MaxBVHPoints == 4    \* number of inserts into a stand-alone BVH
MaxRadius == 1       \* radii of the queries on a stand-alone BVH are 0..MaxRadius

None == 0

(***************************************************************************)
(* Exact arithmetic.  <<1, 0>> is +infinity and <<-1, 0>> is -infinity     *)
(* (numpy.inf); the comparisons by cross-multiplication order them as      *)
(* IEEE-754 does.                                                          *)
(***************************************************************************)
Abs(a) == IF a < 0 THEN -a ELSE a

Sign(a) == IF a < 0 THEN -1 ELSE IF a > 0 THEN 1 ELSE 0

RECURSIVE GCD(_, _)
GCD(a, b) == IF b = 0 THEN a ELSE GCD(b, a % b)

Rat(n, d) ==
    IF d = 0 THEN <<Sign(n), 0>>
    ELSE LET g == GCD(Abs(n), Abs(d))
             s == IF d < 0 THEN -1 ELSE 1
         IN  <<s * (n \div g), s * (d \div g)>>

RInt(i) == <<i, 1>>
PosInf == <<1, 0>>
NegInf == <<-1, 0>>
IsInf(a) == a[2] = 0

RNeg(a) == <<-a[1], a[2]>>
RAdd(a, b) ==
    IF a[2] = 0 THEN a
    ELSE IF b[2] = 0 THEN b
    ELSE LET g == GCD(a[2], b[2])
         IN  Rat(a[1] * (b[2] \div g) + b[1] * (a[2] \div g), (a[2] \div g) * b[2])
RSub(a, b) == RAdd(a, RNeg(b))
RMul(a, b) ==
    IF a[2] = 0 \/ b[2] = 0 THEN <<Sign(a[1]) * Sign(b[1]), 0>>
    ELSE LET g1 == GCD(Abs(a[1]), b[2])
             g2 == GCD(Abs(b[1]), a[2])
             h1 == IF g1 = 0 THEN 1 ELSE g1
             h2 == IF g2 = 0 THEN 1 ELSE g2
         IN  Rat((a[1] \div h1) * (b[1] \div h2), (a[2] \div h2) * (b[2] \div h1))
RDiv(a, b) == RMul(a, IF b[1] < 0 THEN <<-b[2], -b[1]>> ELSE <<b[2], b[1]>>)
RCmp(a, b) ==
    IF a = b THEN 0
    ELSE IF a[2] = 0 /\ b[2] = 0 THEN Sign(a[1] - b[1])
    ELSE LET g == GCD(a[2], b[2])
             h == IF g = 0 THEN 1 ELSE g
         IN  Sign(a[1] * (b[2] \div h) - b[1] * (a[2] \div h))
RLt(a, b) == RCmp(a, b) < 0
RLe(a, b) == RCmp(a, b) <= 0
RMin(a, b) == IF RLt(b, a) THEN b ELSE a
RMax(a, b) == IF RLt(a, b) THEN b ELSE a
RSq(a) == RMul(a, a)

(***************************************************************************)
(* point.py: a point is the pair of its coordinates.                       *)
(***************************************************************************)
Pt(x, y) == <<RInt(x), RInt(y)>>

\* Point.__le__: every coordinate is <=
PointLe(p, q) == RLe(p[1], q[1]) /\ RLe(p[2], q[2])

\* Point.__lt__: every coordinate is <
PointLt(p, q) == RLt(p[1], q[1]) /\ RLt(p[2], q[2])

\* Point.distance, squared
Dist2(p, q) == RAdd(RSq(RSub(p[1], q[1])), RSq(RSub(p[2], q[2])))

(***************************************************************************)
(* The float of Python (the IEEE-754 double, rounded to nearest, ties to   *)
(* even) for the values that are not negative: surface areas and costs.    *)
(* A natural number is the sequence of its digits in base 2^15, lowest     *)
(* first, without leading zeros.  A float is <<kind, m, e>>: kind 0 is     *)
(* 0.0, kind 2 is inf, kind 1 is m * 2^e with m of exactly 53 bits.        *)
(***************************************************************************)
Base == 2^15

RECURSIVE BTrim(_)
BTrim(a) ==
    IF a = <<>> THEN a
    ELSE IF a[Len(a)] = 0 THEN BTrim(SubSeq(a, 1, Len(a) - 1)) ELSE a

RECURSIVE BAddC(_, _, _)
BAddC(a, b, c) ==
    IF a = <<>> /\ b = <<>> THEN (IF c = 0 THEN <<>> ELSE <<c>>)
    ELSE LET x == IF a = <<>> THEN 0 ELSE Head(a)
             y == IF b = <<>> THEN 0 ELSE Head(b)
             t == x + y + c
         IN  <<t % Base>> \o BAddC(IF a = <<>> THEN a ELSE Tail(a),
                                   IF b = <<>> THEN b ELSE Tail(b), t \div Base)

BAdd(a, b) == BAddC(a, b, 0)

\* a - b for a >= b
RECURSIVE BSubB(_, _, _)
BSubB(a, b, borrow) ==
    IF a = <<>> THEN <<>>
    ELSE LET y == IF b = <<>> THEN 0 ELSE Head(b)
             d == Head(a) - y - borrow
         IN  <<(d + Base) % Base>> \o BSubB(Tail(a), IF b = <<>> THEN b ELSE Tail(b),
                                            IF d < 0 THEN 1 ELSE 0)

BSub(a, b) == BTrim(BSubB(a, b, 0))

RECURSIVE BCmpAt(_, _, _)
BCmpAt(a, b, i) ==
    IF i = 0 THEN 0
    ELSE IF a[i] # b[i] THEN Sign(a[i] - b[i]) ELSE BCmpAt(a, b, i - 1)

BCmp(a, b) == IF Len(a) # Len(b) THEN Sign(Len(a) - Len(b)) ELSE BCmpAt(a, b, Len(a))

\* a * k + c for a digit k
RECURSIVE BMulSmall(_, _, _)
BMulSmall(a, k, c) ==
    IF a = <<>> THEN (IF c = 0 THEN <<>> ELSE <<c>>)
    ELSE LET t == Head(a) * k + c
         IN  <<t % Base>> \o BMulSmall(Tail(a), k, t \div Base)

RECURSIVE BMulAcc(_, _)
BMulAcc(a, b) ==
    IF b = <<>> THEN <<>>
    ELSE BAdd(BMulSmall(a, Head(b), 0), <<0>> \o BMulAcc(a, Tail(b)))

BMul(a, b) == BTrim(BMulAcc(a, b))

\* <<a \div d, a % d>> for 0 < d <= Base, from the highest digit down
RECURSIVE BDivHi(_, _, _, _, _)
BDivHi(a, d, i, rem, acc) ==
    IF i = 0 THEN <<BTrim(acc), rem>>
    ELSE LET cur == rem * Base + a[i]
         IN  BDivHi(a, d, i - 1, cur % d, <<cur \div d>> \o acc)

BDivSmall(a, d) == BDivHi(a, d, Len(a), 0, <<>>)

\* a * 2^k
BShl(a, k) ==
    IF a = <<>> THEN a
    ELSE [i \in 1..(k \div 15) |-> 0] \o BMulSmall(a, 2^(k % 15), 0)

\* a \div 2^k
BShr(a, k) ==
    IF Len(a) <= k \div 15 THEN <<>>
    ELSE BDivSmall(SubSeq(a, (k \div 15) + 1, Len(a)), 2^(k % 15))[1]

RECURSIVE BitsOf(_)
BitsOf(x) == IF x = 0 THEN 0 ELSE 1 + BitsOf(x \div 2)

BBitLen(a) == IF a = <<>> THEN 0 ELSE 15 * (Len(a) - 1) + BitsOf(a[Len(a)])

FZero == <<0, <<>>, 0>>
FInf == <<2, <<>>, 0>>

\* the float nearest to n * 2^e, ties to even
FRound(n, e) ==
    LET Norm(q, e2) == IF BBitLen(q) > 53 THEN <<1, BShr(q, 1), e2 + 1>> ELSE <<1, q, e2>>
        Up(c, q) == c > 0 \/ (c = 0 /\ q[1] % 2 = 1)
        RoundQ(k, q) ==
            Norm(IF Up(BCmp(BSub(n, BShl(q, k)), BShl(<<1>>, k - 1)), q)
                 THEN BAdd(q, <<1>>) ELSE q, e + k)
        RoundK(k) == IF k <= 0 THEN <<1, BShl(n, -k), e + k>> ELSE RoundQ(k, BShr(n, k))
    IN  IF n = <<>> THEN FZero ELSE RoundK(BBitLen(n) - 53)

\* float(i) for an integer 0 <= i < Base
FromInt(i) == IF i = 0 THEN FZero ELSE FRound(<<i>>, 0)

FAdd(a, b) ==
    IF a[1] = 2 \/ b[1] = 2 THEN FInf
    ELSE IF a[1] = 0 THEN b
    ELSE IF b[1] = 0 THEN a
    ELSE LET e0 == IF a[3] < b[3] THEN a[3] ELSE b[3]
         IN  FRound(BAdd(BShl(a[2], a[3] - e0), BShl(b[2], b[3] - e0)), e0)

FCmp(a, b) ==
    IF a[1] # 1 \/ b[1] # 1 THEN Sign(a[1] - b[1])
    ELSE IF a[3] # b[3] THEN Sign(a[3] - b[3])
    ELSE BCmp(a[2], b[2])

FLt(a, b) == FCmp(a, b) < 0
FLe(a, b) == FCmp(a, b) <= 0
FMin(a, b) == IF FLt(b, a) THEN b ELSE a

\* a - b, for the finite a >= b this model meets
FSub(a, b) ==
    CASE b[1] = 0 -> a
      [] a[1] = 1 /\ b[1] = 1 /\ FLe(b, a) ->
            LET e0 == IF a[3] < b[3] THEN a[3] ELSE b[3]
            IN  FRound(BSub(BShl(a[2], a[3] - e0), BShl(b[2], b[3] - e0)), e0)

FMul(a, b) ==
    IF a[1] = 0 \/ b[1] = 0 THEN FZero
    ELSE IF a[1] = 2 \/ b[1] = 2 THEN FInf
    ELSE FRound(BMul(a[2], b[2]), a[3] + b[3])

\* 2 * a, which is exact
FTwice(a) == IF a[1] = 1 THEN <<1, a[2], a[3] + 1>> ELSE a

\* a / b for integers 0 < a, 0 < b < Base: the quotient to 60 binary places
\* and one more digit that tells whether anything is left
FDivInt(a, b) ==
    LET Quot(qr) == FRound(BAdd(BShl(qr[1], 1), IF qr[2] = 0 THEN <<>> ELSE <<1>>), -61)
    IN  Quot(BDivSmall(BShl(<<a>>, 60), b))

(***************************************************************************)
(* trees/aabb.py.  Points have two coordinates, and the coordinates of the *)
(* points given to an AABB are integers.                                   *)
(***************************************************************************)
\* SKIN = 1e-12: the double 4951760157141521 * 2^-92
SKIN == <<1, <<27153, 603, 24166, 140>>, -92>>

\* 2*SKIN
TwoSKIN == FTwice(SKIN)

\* the float of a coordinate difference
FromCoord(r) == CASE r[2] = 1 /\ r[1] >= 0 -> FromInt(r[1])

\* AABB._update_surface_area: 2 * sum over i of the product over j # i of
\* (pmax[j] - pmin[j] + 2 * SKIN)
SurfaceArea(pmin, pmax) ==
    LET a0 == FAdd(FromCoord(RSub(pmax[2], pmin[2])), TwoSKIN)
        a1 == FAdd(FromCoord(RSub(pmax[1], pmin[1])), TwoSKIN)
    IN  FTwice(FAdd(a0, a1))

\* AABB.__init__ without points: _set is not called
AABB_empty == [pmin |-> <<NegInf, NegInf>>, pmax |-> <<PosInf, PosInf>>, sa |-> FZero]

RECURSIVE AABB_update(_, _)
AABB_update(box, points) ==
    IF points = <<>> THEN [box EXCEPT !.sa = SurfaceArea(box.pmin, box.pmax)]
    ELSE LET p == Head(points)
         IN  AABB_update([box EXCEPT !.pmin = <<RMin(box.pmin[1], p[1]), RMin(box.pmin[2], p[2])>>,
                                     !.pmax = <<RMax(box.pmax[1], p[1]), RMax(box.pmax[2], p[2])>>],
                         Tail(points))

AABB_set(box, points) ==
    AABB_update([box EXCEPT !.pmin = <<PosInf, PosInf>>, !.pmax = <<NegInf, NegInf>>], points)

\* AABB(*points)
AABB_of(points) == AABB_set(AABB_empty, points)

AABB_union(box, other) == AABB_update(box, <<other.pmin, other.pmax>>)

\* the test with < in place of <=: boxes that only touch do not intersect
AABB_intersect_strict(box, other) == PointLt(box.pmin, other.pmax) /\ PointLt(other.pmin, box.pmax)

AABB_intersect(box, other) == PointLe(box.pmin, other.pmax) /\ PointLe(other.pmin, box.pmax)

AABB_contains(box, point) == PointLe(box.pmin, point) /\ PointLe(point, box.pmax)

AABB_proposed_surface_area(box, point) ==
    SurfaceArea(<<RMin(box.pmin[1], point[1]), RMin(box.pmin[2], point[2])>>,
                <<RMax(box.pmax[1], point[1]), RMax(box.pmax[2], point[2])>>)

\* AABB.__lt__
AABB_lt(box, other) ==
    IF box.pmin = other.pmin THEN PointLt(box.pmax, other.pmax)
    ELSE PointLt(box.pmin, other.pmin)

(***************************************************************************)
(* trees/tree_bvh.py.  A tree is [nodes, root]; a node is a record with    *)
(* kind "leaf" or "internal".  A leaf holds the coordinates of its point   *)
(* (value) and the identity of the point object (obj).                     *)
(***************************************************************************)
LeafBVH(point, obj) ==
    [kind |-> "leaf", parent |-> None, left |-> None, right |-> None, height |-> 0,
     count |-> 1, box |-> AABB_of(<<point>>), value |-> point, obj |-> obj]

InternalBVH ==
    [kind |-> "internal", parent |-> None, left |-> None, right |-> None, height |-> 0,
     count |-> 0, box |-> AABB_empty, value |-> <<>>, obj |-> None]

EmptyTree == [nodes |-> <<>>, root |-> None]

\* InternalBVH.__lt__ and LeafBVH.__lt__
NodeBVH_lt(N, a, b) ==
    IF N[a].kind = "internal"
    THEN IF N[b].kind = "leaf" THEN PointLt(N[a].box.pmin, N[b].value)
         ELSE AABB_lt(N[a].box, N[b].box)
    ELSE IF N[b].kind = "internal" THEN PointLt(N[a].value, N[b].box.pmin)
         ELSE PointLt(N[a].value, N[b].value)

\* the order of the tuples (cost, node) in the search queue of _insert
ItemLt(N, a, b) ==
    IF a[1] # b[1] THEN FLt(a[1], b[1])
    ELSE IF a[2] = b[2] THEN FALSE
    ELSE NodeBVH_lt(N, a[2], b[2])

\* heapq._siftdown; positions are those of Python, heap[pos] is heap[pos + 1] here
RECURSIVE heapq_siftdown(_, _, _, _, _)
heapq_siftdown(N, heap, startpos, pos, newitem) ==
    IF pos > startpos /\ ItemLt(N, newitem, heap[((pos - 1) \div 2) + 1])
    THEN heapq_siftdown(N, [heap EXCEPT ![pos + 1] = heap[((pos - 1) \div 2) + 1]],
                        startpos, (pos - 1) \div 2, newitem)
    ELSE [heap EXCEPT ![pos + 1] = newitem]

\* heapq._siftup
RECURSIVE heapq_siftup(_, _, _, _, _)
heapq_siftup(N, heap, startpos, pos, newitem) ==
    LET endpos == Len(heap)
        childpos == 2 * pos + 1
        rightpos == childpos + 1
        Move(c) == heapq_siftup(N, [heap EXCEPT ![pos + 1] = heap[c + 1]], startpos, c, newitem)
    IN  IF childpos < endpos
        THEN Move(IF rightpos < endpos /\ ~ItemLt(N, heap[childpos + 1], heap[rightpos + 1])
                  THEN rightpos ELSE childpos)
        ELSE heapq_siftdown(N, [heap EXCEPT ![pos + 1] = newitem], startpos, pos, newitem)

heappush(N, heap, item) == heapq_siftdown(N, Append(heap, item), 0, Len(heap), item)

\* heapq.heappop: the item popped and the heap left
heappop(N, heap) ==
    LET lastelt == heap[Len(heap)]
        rest == SubSeq(heap, 1, Len(heap) - 1)
    IN  IF rest = <<>> THEN [item |-> lastelt, heap |-> rest]
        ELSE [item |-> rest[1], heap |-> heapq_siftup(N, rest, 0, 0, lastelt)]

\* the search with the test node_cost < best_cost: of the nodes of one cost,
\* the first that is popped stays the best
RECURSIVE TreeBVH_search_first_wins(_, _, _, _, _)
TreeBVH_search_first_wins(N, point, queue, best_cost, best_node) ==
    LET Push(q, low_cost, node) ==
            heappush(N, heappush(N, q, <<low_cost, N[node].left>>), <<low_cost, N[node].right>>)
        Decide(q, node, node_cost, low_cost, better) ==
            TreeBVH_search_first_wins(N, point,
                           IF FLt(low_cost, IF better THEN node_cost ELSE best_cost)
                              /\ N[node].kind = "internal"
                           THEN Push(q, low_cost, node) ELSE q,
                           IF better THEN node_cost ELSE best_cost,
                           IF better THEN node ELSE best_node)
        Costs(q, node, node_cost, low_cost) ==
            Decide(q, node, node_cost, low_cost, FLt(node_cost, best_cost))
        Visit(q, inherited_cost, node, sa, point_sa) ==
            Costs(q, node, FAdd(sa, inherited_cost), FAdd(inherited_cost, FSub(point_sa, sa)))
        Next1(p) ==
            Visit(p.heap, p.item[1], p.item[2], N[p.item[2]].box.sa,
                  AABB_proposed_surface_area(N[p.item[2]].box, point))
    IN  IF queue = <<>> THEN best_node ELSE Next1(heappop(N, queue))

\* the best-first search of TreeBVH._insert for the sibling of the new point
RECURSIVE TreeBVH_search(_, _, _, _, _)
TreeBVH_search(N, point, queue, best_cost, best_node) ==
    LET Push(q, low_cost, node) ==
            heappush(N, heappush(N, q, <<low_cost, N[node].left>>), <<low_cost, N[node].right>>)
        Decide(q, node, node_cost, low_cost, better) ==
            TreeBVH_search(N, point,
                           IF FLt(low_cost, IF better THEN node_cost ELSE best_cost)
                              /\ N[node].kind = "internal"
                           THEN Push(q, low_cost, node) ELSE q,
                           IF better THEN node_cost ELSE best_cost,
                           IF better THEN node ELSE best_node)
        Costs(q, node, node_cost, low_cost) ==
            Decide(q, node, node_cost, low_cost, FLe(node_cost, best_cost))
        Visit(q, inherited_cost, node, sa, point_sa) ==
            Costs(q, node, FAdd(sa, inherited_cost), FAdd(inherited_cost, FSub(point_sa, sa)))
        Popped(p) ==
            Visit(p.heap, p.item[1], p.item[2], N[p.item[2]].box.sa,
                  AABB_proposed_surface_area(N[p.item[2]].box, point))
    IN  IF queue = <<>> THEN best_node ELSE Popped(heappop(N, queue))

\* the nodes that the search of TreeBVH._insert pops, in the order of the
\* pops, each with its node_cost
RECURSIVE TreeBVH_search_pops(_, _, _, _, _)
TreeBVH_search_pops(N, point, queue, best_cost, pops) ==
    LET Push(q, low_cost, node) ==
            heappush(N, heappush(N, q, <<low_cost, N[node].left>>), <<low_cost, N[node].right>>)
        Decide(q, node, node_cost, low_cost, best) ==
            TreeBVH_search_pops(N, point,
                                IF FLt(low_cost, best) /\ N[node].kind = "internal"
                                THEN Push(q, low_cost, node) ELSE q,
                                best, Append(pops, <<node, node_cost>>))
        Costs(q, node, node_cost, low_cost) ==
            Decide(q, node, node_cost, low_cost, FMin(node_cost, best_cost))
        Visit(q, inherited_cost, node, sa, point_sa) ==
            Costs(q, node, FAdd(sa, inherited_cost), FAdd(inherited_cost, FSub(point_sa, sa)))
        Taken(p) ==
            Visit(p.heap, p.item[1], p.item[2], N[p.item[2]].box.sa,
                  AABB_proposed_surface_area(N[p.item[2]].box, point))
    IN  IF queue = <<>> THEN pops ELSE Taken(heappop(N, queue))

\* set_box that forgets the right child
set_box_left_only(N, i) ==
    [N EXCEPT ![i].box = AABB_set(N[i].box, <<N[N[i].left].box.pmin, N[N[i].left].box.pmax>>)]

\* InternalBVH.set_box
set_box(N, i) ==
    [N EXCEPT ![i].box = AABB_set(N[i].box, <<N[N[i].left].box.pmin, N[N[i].left].box.pmax,
                                               N[N[i].right].box.pmin, N[N[i].right].box.pmax>>)]

\* update_count that forgets the node itself
update_count_children_only(N, i) == [N EXCEPT ![i].count = N[N[i].left].count + N[N[i].right].count]

\* InternalBVH.update_count
update_count(N, i) == [N EXCEPT ![i].count = 1 + N[N[i].left].count + N[N[i].right].count]

\* Internal.update_height
Max(a, b) == IF a < b THEN b ELSE a
update_height(N, i) == [N EXCEPT ![i].height = 1 + Max(N[N[i].left].height, N[N[i].right].height)]

\* Internal.imbalance
imbalance(N, i) == IF N[i].kind = "leaf" THEN 0 ELSE N[N[i].left].height - N[N[i].right].height

\* TreeBVH._insert: the tree with the new leaf (the last node but one) and its
\* new parent (the last node)
TreeBVH__insert(T, point, obj) ==
    LET newnode == Len(T.nodes) + 1
        internal == Len(T.nodes) + 2
        Finish(N3, sibling) ==
            [nodes |-> update_height(update_count(set_box(N3, internal), internal), internal),
             root |-> IF sibling = T.root THEN internal ELSE T.root]
        Link(N2, sibling) ==
            Finish([N2 EXCEPT ![internal].left = sibling, ![internal].right = newnode,
                              ![sibling].parent = internal, ![newnode].parent = internal],
                   sibling)
        Attach(N1, sibling, par) ==
            Link(IF sibling = T.root THEN N1
                 ELSE [N1 EXCEPT ![internal].parent = par,
                                 ![par].left = IF N1[par].left = sibling THEN internal ELSE @,
                                 ![par].right = IF N1[par].left = sibling THEN @ ELSE internal],
                 sibling)
        Found(sibling) ==
            Attach(T.nodes \o <<LeafBVH(point, obj), InternalBVH>>, sibling, T.nodes[sibling].parent)
    IN  Found(TreeBVH_search(T.nodes, point, << <<FZero, T.root>> >>, FInf, None))

\* TreeBVH._update_internals, from the node reached
RECURSIVE TreeBVH_update_internals(_, _, _)
TreeBVH_update_internals(N, root, node) ==
    IF node = root THEN N
    ELSE LET up == N[node].parent
             N1 == [N EXCEPT ![up].box = AABB_union(N[up].box, N[node].box)]
         IN  TreeBVH_update_internals(update_height(update_count(N1, up), up), root, up)

\* TreeBVH.insert
TreeBVH_insert(T, point, obj) ==
    LET Updated(T1) ==
            [T1 EXCEPT !.nodes = TreeBVH_update_internals(T1.nodes, T1.root, Len(T1.nodes))]
    IN  IF T.root = None
        THEN [nodes |-> T.nodes \o <<LeafBVH(point, obj)>>, root |-> Len(T.nodes) + 1]
        ELSE Updated(TreeBVH__insert(T, point, obj))

\* TreeBVH.query: the depth-first search over a stack, None when nothing is found
RECURSIVE TreeBVH_query_loop(_, _, _, _, _)
TreeBVH_query_loop(N, stack, point, radius, box) ==
    IF stack = <<>> THEN None
    ELSE LET node == stack[Len(stack)]
             rest == SubSeq(stack, 1, Len(stack) - 1)
         IN  IF N[node].kind = "leaf"
             THEN IF RLe(Dist2(point, N[node].value), RSq(radius)) THEN node
                  ELSE TreeBVH_query_loop(N, rest, point, radius, box)
             ELSE IF AABB_intersect(box, N[node].box)
                  THEN TreeBVH_query_loop(N, rest \o <<N[node].left, N[node].right>>, point, radius, box)
                  ELSE TreeBVH_query_loop(N, rest, point, radius, box)

TreeBVH_query(T, point, radius) ==
    IF T.root = None THEN None
    ELSE LET box == IF radius = RInt(0) THEN AABB_of(<<point>>)
                    ELSE AABB_of(<< <<RSub(point[1], radius), RSub(point[2], radius)>>,
                                    <<RAdd(point[1], radius), RAdd(point[2], radius)>> >>)
         IN  TreeBVH_query_loop(T.nodes, <<T.root>>, point, radius, box)

\* TreeBVH.contains: is this point object in the tree
RECURSIVE TreeBVH_contains_loop(_, _, _, _)
TreeBVH_contains_loop(N, stack, point, obj) ==
    IF stack = <<>> THEN FALSE
    ELSE LET node == stack[Len(stack)]
             rest == SubSeq(stack, 1, Len(stack) - 1)
         IN  IF N[node].kind = "leaf"
             THEN IF N[node].obj = obj THEN TRUE ELSE TreeBVH_contains_loop(N, rest, point, obj)
             ELSE IF AABB_contains(N[node].box, point)
                  THEN TreeBVH_contains_loop(N, rest \o <<N[node].left, N[node].right>>, point, obj)
                  ELSE TreeBVH_contains_loop(N, rest, point, obj)

TreeBVH_contains(T, point, obj) ==
    IF T.root = None THEN FALSE ELSE TreeBVH_contains_loop(T.nodes, <<T.root>>, point, obj)

\* calculate_cost of BalancedTreeBVH._rebalance
calculate_cost(N, node) ==
    LET l == N[node].left
        r == N[node].right
        cost == FAdd(FMul(FDivInt(N[l].count, N[node].count), N[l].box.sa),
                     FMul(FDivInt(N[r].count, N[node].count), N[r].box.sa))
        dc == Max(1, Abs(imbalance(N, node)))
    IN  FMul(cost, FromInt(dc))

\* update of BalancedTreeBVH._rebalance
update(N, i) == update_height(update_count(N, i), i)

\* one of the four swaps of BalancedTreeBVH._rebalance, named as the code
\* names its cost: ll_r swaps node.right with node.left.left, lr_r with
\* node.left.right, rl_l swaps node.left with node.right.left, rr_l with
\* node.right.right; then set_box() and update() of the child that changed
swap(N, node, kind) ==
    LET l == N[node].left
        r == N[node].right
        onleft == kind = "ll_r" \/ kind = "lr_r"
        Done(N1, child) == update(set_box(N1, child), child)
    IN  Done(IF onleft
             THEN [N EXCEPT ![node].right = IF kind = "ll_r" THEN N[l].left ELSE N[l].right,
                            ![IF kind = "ll_r" THEN N[l].left ELSE N[l].right].parent = node,
                            ![r].parent = l,
                            ![l].left = IF kind = "ll_r" THEN r ELSE @,
                            ![l].right = IF kind = "ll_r" THEN @ ELSE r]
             ELSE [N EXCEPT ![node].left = IF kind = "rl_l" THEN N[r].left ELSE N[r].right,
                            ![IF kind = "rl_l" THEN N[r].left ELSE N[r].right].parent = node,
                            ![l].parent = r,
                            ![r].left = IF kind = "rl_l" THEN l ELSE @,
                            ![r].right = IF kind = "rl_l" THEN @ ELSE l],
             IF onleft THEN l ELSE r)

\* the cost of node with one swap tried
trial_cost(N, node, kind) == calculate_cost(swap(N, node, kind), node)

\* one pass of the loop of BalancedTreeBVH._rebalance at node
rebalance_step(N, node) ==
    LET left == N[node].left
        right == N[node].right
        li == N[left].kind = "internal"
        ri == N[right].kind = "internal"
        Apply(Nb, kind) == update_height(IF kind = "none" THEN Nb ELSE swap(Nb, node, kind), node)
        Choose(Nb, cost, cost_ll_r, cost_lr_r, cost_rl_l, cost_rr_l, min_cost) ==
            Apply(Nb, IF min_cost = cost THEN "none"
                      ELSE IF min_cost = cost_ll_r THEN "ll_r"
                      ELSE IF min_cost = cost_lr_r THEN "lr_r"
                      ELSE IF min_cost = cost_rl_l THEN "rl_l"
                      ELSE IF min_cost = cost_rr_l THEN "rr_l"
                      ELSE "none")
        Costs(Nb, cost, cost_ll_r, cost_lr_r, cost_rl_l, cost_rr_l) ==
            Choose(Nb, cost, cost_ll_r, cost_lr_r, cost_rl_l, cost_rr_l,
                   FMin(FMin(FMin(FMin(cost, cost_ll_r), cost_lr_r), cost_rl_l), cost_rr_l))
        \* the trial swaps are undone and the child is recomputed from its children
        Right(Na, cost, cost_ll_r, cost_lr_r) ==
            Costs(IF ri THEN update(set_box(Na, right), right) ELSE Na,
                  cost, cost_ll_r, cost_lr_r,
                  IF ri THEN trial_cost(Na, node, "rl_l") ELSE FInf,
                  IF ri THEN trial_cost(Na, node, "rr_l") ELSE FInf)
    IN  Right(IF li THEN update(set_box(N, left), left) ELSE N,
              IF Abs(imbalance(N, node)) >= 2 THEN FInf ELSE calculate_cost(N, node),
              IF li THEN trial_cost(N, node, "ll_r") ELSE FInf,
              IF li THEN trial_cost(N, node, "lr_r") ELSE FInf)

RECURSIVE BalancedTreeBVH_rebalance_loop(_, _, _)
BalancedTreeBVH_rebalance_loop(N, root, node) ==
    LET Walk(N1) ==
            IF node = root THEN N1 ELSE BalancedTreeBVH_rebalance_loop(N1, root, N1[node].parent)
    IN  Walk(rebalance_step(N, node))

\* the passes of the loop of BalancedTreeBVH._rebalance from node up to the
\* root: the nodes before each pass and the node of the pass
RECURSIVE BalancedTreeBVH_rebalance_passes(_, _, _)
BalancedTreeBVH_rebalance_passes(N, root, node) ==
    LET Walk(N1) ==
            IF node = root THEN <<>>
            ELSE BalancedTreeBVH_rebalance_passes(N1, root, N1[node].parent)
    IN  <<[nodes |-> N, node |-> node]>> \o Walk(rebalance_step(N, node))

\* BalancedTreeBVH._rebalance
BalancedTreeBVH_rebalance(T, leaf) ==
    IF leaf = T.root THEN T
    ELSE [T EXCEPT !.nodes = BalancedTreeBVH_rebalance_loop(T.nodes, T.root, T.nodes[leaf].parent)]

\* an insert that leaves the tree as TreeBVH.insert has left it
BalancedTreeBVH_insert_without_rebalance(T, point, obj) == TreeBVH_insert(T, point, obj)

\* BalancedTreeBVH.insert; the new leaf is the one TreeBVH.insert made
BalancedTreeBVH_insert(T, point, obj) ==
    LET Balance(T1) ==
            BalancedTreeBVH_rebalance(T1, IF T.root = None THEN T1.root ELSE Len(T1.nodes) - 1)
    IN  Balance(TreeBVH_insert(T, point, obj))

(***************************************************************************)
(* The state of a VoronoiDiagram (voronoi_diagram.py).  The objects of     *)
(* each class live in one sequence: the nodes of the beachline, the        *)
(* VoronoiEdge objects, the CircleEvent objects, the PointDCEL objects     *)
(* (vertices and the points that bound the open edges) and the half-edges. *)
(* A site is referred to by its index in the list of sites, which stands   *)
(* for the identity of its point object.                                   *)
(***************************************************************************)
VARIABLES
    pc,               \* "none", "new" (constructed), "run", "done" or "failed"
    sites,            \* _sites
    queue,            \* _queue: the events <<"site", i>> and <<"circle", j>> in it
    prev_site,        \* the local prev_site of run
    nodes,            \* LeafVD and InternalVD objects
    root,             \* _tree._root
    colinear_points,  \* _tree._colinear_points
    colinear_nodes,   \* _tree._colinear_nodes
    vedges,           \* VoronoiEdge objects: the pair of endpoints
    events,           \* CircleEvent objects
    points,           \* PointDCEL objects
    vertices,         \* _dcel._vertices
    edges,            \* _dcel._edges, as EdgeDCEL objects
    n_sites,          \* _n_sites
    n_vertices,       \* _n_vertices
    n_edges,          \* _n_edges
    box,              \* _xmin, _xmax, _ymin, _ymax
    err               \* the assertion that ended the program, "" if none

vdVars == <<pc, sites, queue, prev_site, nodes, root, colinear_points, colinear_nodes,
            vedges, events, points, vertices, edges, n_sites, n_vertices, n_edges, box, err>>

\* a ScalarTreeAVL of integers, the tree of the tests of TreeAVL
VARIABLES
    avl,              \* the tree: its nodes as LeafAVL and InternalAVL objects, and _root
    avl_inserted      \* the values that insert was called with, in order

avlVars == <<avl, avl_inserted>>

\* ScalarTreeAVL.__init__
EmptyAVL == [nodes |-> <<>>, root |-> None]

NoAVL == avl = EmptyAVL /\ avl_inserted = <<>>

EmptyBox == [xmin |-> PosInf, xmax |-> NegInf, ymin |-> PosInf, ymax |-> NegInf]

\* VoronoiDiagram.__init__ with the list s of sites
Constructed(s) ==
    /\ sites = s
    /\ queue = {}
    /\ prev_site = None
    /\ nodes = <<>>
    /\ root = None
    /\ colinear_points = TRUE
    /\ colinear_nodes = <<>>
    /\ vedges = <<>>
    /\ events = <<>>
    /\ points = <<>>
    /\ vertices = <<>>
    /\ edges = <<>>
    /\ n_sites = 0
    /\ n_vertices = 0
    /\ n_edges = 0
    /\ box = EmptyBox
    /\ err = ""

(***************************************************************************)
(* A stand-alone vertex index: points are inserted one at a time into a    *)
(* TreeBVH or a BalancedTreeBVH and the tree is queried in between.        *)
(***************************************************************************)
VARIABLES
    bt,      \* the tree: [nodes, root]
    bbal,    \* TRUE for a BalancedTreeBVH, FALSE for a TreeBVH
    bq       \* the last query and its answer, or NoQuery

bvhVars == <<bt, bbal, bq>>

BVHGrid == {Pt(x, y) : x \in 0..MaxBVHCoord, y \in 0..MaxBVHCoord}
Radii == {RInt(r) : r \in 0..MaxRadius}
NoQuery == [point |-> <<>>, radius |-> <<>>, found |-> None]

Leaves(N) == {i \in 1..Len(N) : N[i].kind = "leaf"}
Internals(N) == {i \in 1..Len(N) : N[i].kind = "internal"}

BVHInit ==
    /\ bt = EmptyTree
    /\ bbal \in BOOLEAN
    /\ bq = NoQuery
    /\ pc = "none"
    /\ Constructed(<<>>)
    /\ NoAVL

BVHInsert(p) ==
    /\ bq = NoQuery
    /\ Cardinality(Leaves(bt.nodes)) < MaxBVHPoints
    /\ bt' = IF bbal THEN BalancedTreeBVH_insert(bt, p, Cardinality(Leaves(bt.nodes)) + 1)
             ELSE TreeBVH_insert(bt, p, Cardinality(Leaves(bt.nodes)) + 1)
    /\ UNCHANGED <<bbal, bq, vdVars, avlVars>>

BVHQuery(p, r) ==
    /\ bq = NoQuery
    /\ bq' = [point |-> p, radius |-> r, found |-> TreeBVH_query(bt, p, r)]
    /\ UNCHANGED <<bt, bbal, vdVars, avlVars>>

\* the caller is done with the answer
BVHReturn ==
    /\ bq # NoQuery
    /\ bq' = NoQuery
    /\ UNCHANGED <<bt, bbal, vdVars, avlVars>>

BVHNext ==
    \/ \E p \in BVHGrid : BVHInsert(p)
    \/ \E p \in BVHGrid, r \in Radii : BVHQuery(p, r)
    \/ BVHReturn

SpecBVH == BVHInit /\ [][BVHNext]_<<bvhVars, vdVars, avlVars>>

(***************************************************************************)
(* A BalancedTreeBVH of identical points, as in test_balanced_tree_height: *)
(* every insert is of the point of the first.                              *)
(***************************************************************************)
MaxSamePoints == 10

SameInit ==
    /\ bt = EmptyTree
    /\ bbal = TRUE
    /\ bq = NoQuery
    /\ pc = "none"
    /\ Constructed(<<>>)
    /\ NoAVL

\* tree.insert(Point(...)) of the same point again
SameInsert(p) ==
    /\ bq = NoQuery
    /\ bt.root # None => p = bt.nodes[1].value
    /\ Cardinality(Leaves(bt.nodes)) < MaxSamePoints
    /\ bt' = BalancedTreeBVH_insert(bt, p, Cardinality(Leaves(bt.nodes)) + 1)
    /\ UNCHANGED <<bbal, bq, vdVars, avlVars>>

SameNext ==
    \/ \E p \in BVHGrid : SameInsert(p)
    \/ \E p \in BVHGrid, r \in Radii : BVHQuery(p, r)
    \/ BVHReturn

SpecSame == SameInit /\ [][SameNext]_<<bvhVars, vdVars, avlVars>>

(***************************************************************************)
(* Properties of the vertex index.                                         *)
(***************************************************************************)
\* the new leaf and the new internal node of the last insert into a tree of
\* two leaves or more
NewLeaf == Len(bt.nodes) - 1
NewInternal == Len(bt.nodes)

RECURSIVE InSubtree(_, _, _)
InSubtree(N, j, i) ==
    IF j = i THEN TRUE
    ELSE IF N[j].parent = None THEN FALSE
    ELSE InSubtree(N, N[j].parent, i)

\* C4: after any sequence of inserts into a TreeBVH or a BalancedTreeBVH, the
\* swaps of the balanced variant included, the count of every internal node
\* is 1 + left.count + right.count and the count of every leaf is 1.
C4_CountInvariant ==
    \A i \in 1..Len(bt.nodes) :
        IF bt.nodes[i].kind = "leaf" THEN bt.nodes[i].count = 1
        ELSE bt.nodes[i].count = 1 + bt.nodes[bt.nodes[i].left].count
                                   + bt.nodes[bt.nodes[i].right].count

\* a full balanced tree in which a swap has given the internal node of the
\* last insert another right child than the new leaf
C4_Witness ==
    /\ bbal
    /\ Cardinality(Leaves(bt.nodes)) = MaxBVHPoints
    /\ bt.nodes[NewInternal].right # NewLeaf
    /\ bt.nodes[bt.root].count = 2 * MaxBVHPoints - 1

\* C5: after any sequence of inserts into either variant, the box of every
\* internal node contains the boxes of both of its children, and so every
\* point stored in its subtree.
C5_BoxInvariant ==
    \A i \in Internals(bt.nodes) :
        /\ \A c \in {bt.nodes[i].left, bt.nodes[i].right} :
              /\ PointLe(bt.nodes[i].box.pmin, bt.nodes[c].box.pmin)
              /\ PointLe(bt.nodes[c].box.pmax, bt.nodes[i].box.pmax)
        /\ \A j \in Leaves(bt.nodes) :
              InSubtree(bt.nodes, j, i) => AABB_contains(bt.nodes[i].box, bt.nodes[j].value)

\* a balanced tree in which a swap has moved the leaf of the last insert away
\* from the internal node made for it, under a parent whose box is not a point
C5_Witness ==
    /\ bbal
    /\ Cardinality(Leaves(bt.nodes)) >= 3
    /\ bt.nodes[NewLeaf].parent # NewInternal
    /\ bt.nodes[bt.nodes[NewLeaf].parent].box.pmin # bt.nodes[bt.nodes[NewLeaf].parent].box.pmax

\* the leaves whose point lies within the radius of the point of the query
WithinRadius ==
    {i \in Leaves(bt.nodes) : RLe(Dist2(bq.point, bt.nodes[i].value), RSq(bq.radius))}

\* C6: query(p, r) returns a leaf whose point lies within distance r of p
\* whenever a stored point does, and None exactly when no stored point does.
C6_QueryIsLinearScan ==
    bq # NoQuery =>
        IF WithinRadius = {} THEN bq.found = None ELSE bq.found \in WithinRadius

\* a query with a positive radius away from every stored point that finds a
\* leaf in a tree that also holds a point out of reach
C6_Witness ==
    /\ bq # NoQuery
    /\ bq.radius # RInt(0)
    /\ bq.found # None
    /\ bt.nodes[bq.found].value # bq.point
    /\ \A i \in Leaves(bt.nodes) : bt.nodes[i].value # bq.point
    /\ Leaves(bt.nodes) \ WithinRadius # {}

(***************************************************************************)
(* math_voronoi.py on exact numbers.                                       *)
(***************************************************************************)
det(p, q, r) ==
    RSub(RMul(RSub(p[1], r[1]), RSub(q[2], r[2])), RMul(RSub(p[2], r[2]), RSub(q[1], r[1])))

\* np.less(d, 0) and not np.isclose(d, 0)
is_right(p, q, r) == RLt(det(p, q, r), RInt(0))

\* <<a, b, c>> of the line a*x + b*y = c through the midpoint of p and q
perpendicular_line_parameters(p, q) ==
    LET Line(dx, dy) ==
            <<RNeg(dx), RNeg(dy),
              RSub(RMul(RNeg(dx), RDiv(RAdd(p[1], q[1]), RInt(2))),
                   RMul(dy, RDiv(RAdd(p[2], q[2]), RInt(2))))>>
    IN  Line(RSub(q[1], p[1]), RSub(q[2], p[2]))

NoCircle == <<>>

\* the centre, and the square of the radius: the radius itself is the square
\* root of a rational and is kept as its square
circle_parameters(p, q, r) ==
    LET Circle(center) == [center |-> center, radius2 |-> Dist2(p, center)]
        Solve(l0, l1, d) ==
            IF d = RInt(0) THEN NoCircle
            ELSE Circle(<<RDiv(RSub(RMul(l0[3], l1[2]), RMul(l1[3], l0[2])), d),
                          RDiv(RSub(RMul(l0[1], l1[3]), RMul(l1[1], l0[3])), d)>>)
        Det(l0, l1) == Solve(l0, l1, RSub(RMul(l0[1], l1[2]), RMul(l1[1], l0[2])))
    IN  Det(perpendicular_line_parameters(p, q), perpendicular_line_parameters(p, r))

\* get_parabola_intersection, compared with the x of the point to insert as
\* _get_sibling compares it: TRUE when point.x is close to or less than the x
\* of the breakpoint of the foci f0 and f1 under the directrix point.y.  The
\* breakpoint is the root (-B - sqrt(D)) / 2A of A x^2 + B x + C: the larger
\* root when f0.y > f1.y (A < 0), the smaller one otherwise.
breakpoint_left(f0, f1, point) ==
    LET Roots(A, u, D) ==
            \* u = 2A point.x + B; point.x <= (-B - sqrt(D)) / 2A
            IF RLt(RInt(0), A) THEN RLe(u, RInt(0)) /\ RLe(D, RSq(u))
            ELSE RLe(RInt(0), u) \/ RLe(RSq(u), D)
        Quadratic(A, B, C) ==
            IF A = RInt(0)
            THEN IF B = RInt(0) THEN FALSE ELSE RLe(point[1], RDiv(RNeg(C), B))
            ELSE Roots(A, RAdd(RMul(RMul(RInt(2), A), point[1]), B),
                       RMax(RInt(0), RSub(RSq(B), RMul(RMul(RInt(4), A), C))))
        Foci(Y0d, Y1d) ==
            Quadratic(RSub(Y1d, Y0d),
                      RMul(RInt(2), RSub(RMul(f1[1], Y0d), RMul(f0[1], Y1d))),
                      RSub(RSub(RMul(RSq(f0[1]), Y1d), RMul(RSq(f1[1]), Y0d)),
                           RMul(RMul(RSub(Y1d, Y0d), Y0d), Y1d)))
    IN  IF f0[2] = point[2] /\ f1[2] = point[2] THEN TRUE   \* x = inf
        ELSE Foci(RSub(f0[2], point[2]), RSub(f1[2], point[2]))

(***************************************************************************)
(* events.py.  The point of a circle event is (center.x, center.y +        *)
(* radius); its y is kept as the pair of center.y and radius squared and   *)
(* two such numbers are compared exactly.                                  *)
(***************************************************************************)
\* foci is no field of the code's CircleEvent: it records, for the
\* properties, the sites of the outer arcs nodeL and nodeR that
\* _add_circle_event made the circle from
CircleEvent(center, radius2) ==
    [center |-> center, radius2 |-> radius2, active |-> TRUE, node |-> None,
     foci |-> <<None, None>>]

make_circle_event(p, q, r) ==
    LET Made(c) == IF c = NoCircle THEN NoCircle ELSE CircleEvent(c.center, c.radius2)
    IN  Made(circle_parameters(p, q, r))

\* the sign of sqrt(b1) - sqrt(b2) - e
RECURSIVE SqrtDiffSign(_, _, _)
SqrtDiffSign(b1, b2, e) ==
    LET Pos(f) ==
            IF RLt(f, RInt(0)) THEN -1
            ELSE IF f = RInt(0) THEN (IF b2 = RInt(0) THEN 0 ELSE -1)
            ELSE RCmp(RSq(RDiv(f, RMul(RInt(2), e))), b2)
    IN  IF e = RInt(0) THEN RCmp(b1, b2)
        ELSE IF RLt(RInt(0), e)
             THEN IF RCmp(b1, b2) <= 0 THEN -1 ELSE Pos(RSub(RSub(b1, b2), RSq(e)))
        ELSE -SqrtDiffSign(b2, b1, RNeg(e))

\* the sign of c._point.y - d._point.y for two circle events (or circles)
CircleYCmp(c, d) == SqrtDiffSign(c.radius2, d.radius2, RSub(d.center[2], c.center[2]))

(***************************************************************************)
(* The machine state that the handlers transform: the fields named as the  *)
(* variables, and ret for the value a method returns.                      *)
(***************************************************************************)
Fail(M, what) == [M EXCEPT !.err = IF @ = "" THEN what ELSE @]

\* a deactivate that leaves the event active
deactivate_not(M, e) == M

\* CircleEvent.deactivate
deactivate(M, e) ==
    IF M.events[e].active THEN [M EXCEPT !.events[e].active = FALSE]
    ELSE Fail(M, "deactivate: assert self._active")

(***************************************************************************)
(* trees/tree.py, trees/tree_avl.py, trees/tree_vd.py: the beachline.      *)
(***************************************************************************)
LeafVD(point) ==
    [kind |-> "leaf", parent |-> None, left |-> None, right |-> None, height |-> 0,
     value |-> point, circle |-> None, internal |-> <<None, None>>, edge |-> None]

InternalVD(p0, p1, endpoints) ==
    [kind |-> "internal", parent |-> None, left |-> None, right |-> None, height |-> 0,
     value |-> None, circle |-> None, internal |-> <<p0, p1>>, edge |-> endpoints]

\* the other side
Opposite(side) == IF side = "left" THEN "right" ELSE "left"

\* while not isinstance(current, Leaf): current = current.<side>
RECURSIVE descend(_, _, _)
descend(N, c, side) == IF N[c].kind = "leaf" THEN c ELSE descend(N, N[c][side], side)

\* while current.parent is not self._root and current.parent.<side> is current
RECURSIVE climb(_, _, _, _)
climb(N, r, c, side) ==
    IF N[c].parent # r /\ N[N[c].parent][side] = c THEN climb(N, r, N[c].parent, side) ELSE c

\* Tree.get_successor (side = "right") and Tree.get_predecessor (side = "left")
neighbour(N, r, node, side) ==
    LET Turn(c) ==
            IF N[c].parent = r /\ N[r][side] = c THEN None
            ELSE descend(N, N[N[c].parent][side], Opposite(side))
    IN  IF N[node].kind = "internal" THEN descend(N, N[node][side], Opposite(side))
        ELSE IF node = r THEN None
        ELSE Turn(climb(N, r, node, side))

get_successor(N, r, node) == neighbour(N, r, node, "right")

get_predecessor(N, r, node) == neighbour(N, r, node, "left")

\* Tree.get_internals: the internal nodes in the order of the stack
RECURSIVE get_internals(_, _)
get_internals(N, stack) ==
    IF stack = <<>> THEN <<>>
    ELSE LET Visit(node, rest) ==
                 IF N[node].kind = "internal"
                 THEN <<node>> \o get_internals(N, rest \o <<N[node].left, N[node].right>>)
                 ELSE get_internals(N, rest)
         IN  Visit(stack[Len(stack)], SubSeq(stack, 1, Len(stack) - 1))

\* TreeAVL._rotate_ll (side = "left") and TreeAVL._rotate_rr (side = "right"):
\* the child on that side takes the place of the node
rotate(M, node, side) ==
    LET N == M.nodes
        child == N[node][side]
        inner == N[child][Opposite(side)]
        parent == N[node].parent
        Linked(N1) ==
            [N1 EXCEPT ![child][Opposite(side)] = node, ![node].parent = child,
                       ![node][side] = inner, ![inner].parent = node]
        Up ==
            IF node = M.root THEN [N EXCEPT ![child].parent = None]
            ELSE IF N[parent].left = node
                 THEN [N EXCEPT ![child].parent = parent, ![parent].left = child]
            ELSE [N EXCEPT ![child].parent = parent, ![parent].right = child]
    IN  [M EXCEPT !.root = IF node = M.root THEN child ELSE @,
                  !.nodes = update_height(update_height(Linked(Up), node), child)]

rotate_ll(M, node) == rotate(M, node, "left")

rotate_rr(M, node) == rotate(M, node, "right")

\* one round of the loop of TreeAVL._rebalance: the rotations at the node
rebalance_node(M, node) ==
    LET Rotations(i) ==
            IF i = 2
            THEN rotate_ll(IF imbalance(M.nodes, M.nodes[node].left) = -1
                           THEN rotate_rr(M, M.nodes[node].left) ELSE M, node)
            ELSE IF i = -2
            THEN rotate_rr(IF imbalance(M.nodes, M.nodes[node].right) = 1
                           THEN rotate_ll(M, M.nodes[node].right) ELSE M, node)
            ELSE M
    IN  Rotations(imbalance(M.nodes, node))

\* a rebalance that stops after the parent of the leaf
rebalance_loop_once(M, node) ==
    [rebalance_node(M, node) EXCEPT !.nodes = update_height(@, node)]

\* the loop of TreeAVL._rebalance from the node up to the root
RECURSIVE rebalance_loop(_, _)
rebalance_loop(M, node) ==
    LET Upward(M1) == IF node = M1.root THEN M1 ELSE rebalance_loop(M1, M1.nodes[node].parent)
        Height(M1) == Upward([M1 EXCEPT !.nodes = update_height(@, node)])
    IN  Height(rebalance_node(M, node))

\* TreeAVL._rebalance
AVL_rebalance(M, leaf) == rebalance_loop(M, M.nodes[leaf].parent)

\* a deactivate_circle that does nothing
deactivate_circle_skipped(M, leaf) == M

\* a deactivate_circle that leaves the leaf with its event
deactivate_circle_keeps_reference(M, leaf) ==
    IF M.nodes[leaf].circle = None THEN M
    ELSE deactivate(M, M.nodes[leaf].circle)

\* LeafVD.deactivate_circle
deactivate_circle(M, leaf) ==
    IF M.nodes[leaf].circle = None THEN M
    ELSE [deactivate(M, M.nodes[leaf].circle) EXCEPT !.nodes[leaf].circle = None]

\* the walk of TreeVD._get_sibling down the right spine while every site so
\* far lies on one horizontal line, left of the point: the leaf, or None
RECURSIVE colinear_walk(_, _, _)
colinear_walk(N, node, point) ==
    LET Right(v) == point[2] = v[2] /\ RLt(v[1], point[1])
    IN  IF N[node].kind = "leaf"
        THEN IF Right(sites[N[node].value]) THEN node ELSE None
        ELSE IF Right(sites[N[node].internal[2]]) THEN colinear_walk(N, N[node].right, point)
        ELSE None

\* a descent that takes the other side at every breakpoint
RECURSIVE breakpoint_walk_mirrored(_, _, _)
breakpoint_walk_mirrored(N, node, point) ==
    IF N[node].kind = "leaf" THEN node
    ELSE IF breakpoint_left(sites[N[node].internal[1]], sites[N[node].internal[2]], point)
    THEN breakpoint_walk_mirrored(N, N[node].right, point)
    ELSE breakpoint_walk_mirrored(N, N[node].left, point)

\* the descent of TreeVD._get_sibling by the breakpoints
RECURSIVE breakpoint_walk(_, _, _)
breakpoint_walk(N, node, point) ==
    IF N[node].kind = "leaf" THEN node
    ELSE IF breakpoint_left(sites[N[node].internal[1]], sites[N[node].internal[2]], point)
    THEN breakpoint_walk(N, N[node].left, point)
    ELSE breakpoint_walk(N, N[node].right, point)

\* a _get_sibling that leaves _colinear_points as it is
TreeVD_get_sibling_keeps_flag(M, point) ==
    LET Walked(leaf) ==
            IF leaf # None THEN [M EXCEPT !.ret = leaf]
            ELSE [M EXCEPT !.ret = breakpoint_walk(M.nodes, M.root, point)]
    IN  Walked(IF M.colinear_points THEN colinear_walk(M.nodes, M.root, point) ELSE None)

\* TreeVD._get_sibling: ret is the sibling
TreeVD_get_sibling(M, point) ==
    LET Walked(leaf) ==
            IF leaf # None THEN [M EXCEPT !.ret = leaf]
            ELSE [M EXCEPT !.colinear_points = FALSE,
                           !.ret = breakpoint_walk(M.nodes, M.root, point)]
    IN  Walked(IF M.colinear_points THEN colinear_walk(M.nodes, M.root, point) ELSE None)

\* TreeVD._insert of the site p next to the leaf sibling: ret is the new leaf
TreeVD__insert(M, p, sibling) ==
    LET pj == M.nodes[sibling].value
        parent == M.nodes[sibling].parent
        k == Len(M.nodes)
        voronoi_edge == Len(M.vedges) + 1
        Replace(N, new) ==
            IF sibling = M.root THEN N
            ELSE IF N[parent].left = sibling
                 THEN [N EXCEPT ![new].parent = parent, ![parent].left = new]
            ELSE [N EXCEPT ![new].parent = parent, ![parent].right = new]
        \* internal, internal_twin, internal.left, internal.right
        Colinear ==
            [M EXCEPT !.vedges = Append(@, <<None, None>>),
                      !.colinear_nodes = Append(@, k + 2),
                      !.root = IF sibling = M.root THEN k + 1 ELSE @,
                      !.nodes = Replace(@ \o
                          <<[InternalVD(pj, p, voronoi_edge) EXCEPT !.left = k + 3, !.right = k + 4],
                            InternalVD(p, pj, voronoi_edge),
                            [LeafVD(pj) EXCEPT !.parent = k + 1],
                            [LeafVD(p) EXCEPT !.parent = k + 1]>>, k + 1),
                      !.ret = k + 4]
        \* internal_left, internal_right, node_right, node_center, node_left
        Split(M1) ==
            [M1 EXCEPT !.vedges = Append(@, <<None, None>>),
                       !.root = IF sibling = M.root THEN k + 2 ELSE @,
                       !.nodes = Replace(@ \o
                           <<[InternalVD(pj, p, voronoi_edge)
                                 EXCEPT !.parent = k + 2, !.left = k + 5, !.right = k + 4],
                             [InternalVD(p, pj, voronoi_edge) EXCEPT !.left = k + 1, !.right = k + 3],
                             [LeafVD(pj) EXCEPT !.parent = k + 2],
                             [LeafVD(p) EXCEPT !.parent = k + 1],
                             [LeafVD(pj) EXCEPT !.parent = k + 1]>>, k + 2),
                       !.ret = k + 4]
    IN  IF M.colinear_points /\ sites[pj][2] = sites[p][2] THEN Colinear
        ELSE Split(deactivate_circle(M, sibling))

\* TreeVD.insert: ret is the leaf of the site
TreeVD_insert(M, p) ==
    LET Balanced(M1) == AVL_rebalance(M1, M1.ret)
        Beside(M1) == Balanced(TreeVD__insert(M1, p, M1.ret))
    IN  IF M.root = None
        THEN [M EXCEPT !.nodes = Append(@, LeafVD(p)), !.root = Len(M.nodes) + 1,
                       !.ret = Len(M.nodes) + 1]
        ELSE Beside(TreeVD_get_sibling(M, sites[p]))

\* while current.parent.<side> is current: current = current.parent
RECURSIVE climb_while(_, _, _)
climb_while(N, c, side) ==
    IF N[c].parent # None /\ N[N[c].parent][side] = c THEN climb_while(N, N[c].parent, side)
    ELSE c

\* internal_new of delete_node with the foci of the node that it replaces
delete_node_foci_of_found(N1, found, replacement, side) == N1[found].internal

\* the foci of internal_new of delete_node: internal_left._internal[0] and
\* replacement._value for a left child, replacement._value and
\* internal_right._internal[1] for a right child
delete_node_foci(N1, found, replacement, side) ==
    IF side = "left" THEN <<N1[found].internal[1], N1[replacement].value>>
    ELSE <<N1[replacement].value, N1[found].internal[2]>>

\* internal_new = InternalVD(..., ..., voronoi_edge)
internal_new(foci, edge) == InternalVD(foci[1], foci[2], edge)

\* TreeVD.delete_node of a leaf that is the child of its parent on the given
\* side: ret is <<internal_new, internal_left, internal_right>>
delete_node_on(M, node, side) ==
    LET N == M.nodes
        other == Opposite(side)
        removed == N[node].parent        \* internal_right for a left child
        kept == N[removed][other]        \* the sibling of the leaf
        above == N[removed].parent
        new == Len(N) + 1
        Spliced ==
            IF N[above].right = removed
            THEN [N EXCEPT ![kept].parent = above, ![above].right = kept]
            ELSE [N EXCEPT ![kept].parent = above, ![above].left = kept]
        Renewed(N1, found, replacement) ==
            LET up == N1[found].parent
                Child(N2) ==
                    IF found = M.root THEN N2
                    ELSE IF N2[up].left = found THEN [N2 EXCEPT ![up].left = new]
                    ELSE [N2 EXCEPT ![up].right = new]
            IN  [M EXCEPT
                   !.vedges = Append(@, <<None, None>>),
                   !.root = IF found = M.root THEN new ELSE @,
                   !.nodes = Child([Append(N1,
                       [internal_new(delete_node_foci(N1, found, replacement, side),
                                     Len(M.vedges) + 1)
                           EXCEPT !.left = N1[found].left, !.right = N1[found].right,
                                  !.parent = up])
                       EXCEPT ![N1[found].left].parent = new, ![N1[found].right].parent = new]),
                   !.ret = IF side = "left" THEN <<new, found, removed>>
                           ELSE <<new, removed, found>>]
        Found(N1, current, replacement) ==
            IF N1[current].parent = None
            THEN Fail(M, "delete_node: current.parent")
            ELSE IF N1[N1[current].parent].internal[IF side = "left" THEN 2 ELSE 1] # N[node].value
            THEN Fail(M, "delete_node: assert _internal is node._value")
            ELSE Renewed(N1, N1[current].parent, replacement)
        Replaced(replacement) ==
            IF replacement = None THEN Fail(M, "delete_node: assert replacement is not None")
            ELSE IF removed = M.root THEN Fail(M, "delete_node: assert internal is not self._root")
            ELSE Found(Spliced, climb_while(Spliced, kept, side), replacement)
    IN  Replaced(neighbour(N, M.root, node, other))

\* TreeVD.delete_node
TreeVD_delete_node(M, node) ==
    LET Balanced(M1, replacement) ==
            IF M1.err # "" THEN M1
            ELSE [AVL_rebalance(M1, replacement) EXCEPT !.ret = M1.ret]
        Deleted(side) ==
            Balanced(delete_node_on(M, node, side), neighbour(M.nodes, M.root, node, Opposite(side)))
    IN  IF node = M.root THEN Fail(M, "delete_node: assert node is not self._root")
        ELSE Deleted(IF M.nodes[M.nodes[node].parent].left = node THEN "left" ELSE "right")

\* an add_endpoint that sets both endpoints
add_endpoint_twice(M, edge, point) ==
    IF M.err # "" THEN M
    ELSE [M EXCEPT !.vedges[edge] = <<point, point>>]

\* VoronoiEdge.add_endpoint
add_endpoint(M, edge, point) ==
    IF M.err # "" THEN M
    ELSE IF M.vedges[edge][1] # None /\ M.vedges[edge][2] # None
    THEN Fail(M, "add_endpoint: assert not self.is_closed()")
    ELSE IF M.vedges[edge][1] = None THEN [M EXCEPT !.vedges[edge][1] = point]
    ELSE [M EXCEPT !.vedges[edge][2] = point]

\* VoronoiEdge.is_closed
is_closed(M, edge) == M.vedges[edge][1] # None /\ M.vedges[edge][2] # None

(***************************************************************************)
(* doubly_connected_edge_list.py.  The vertex tree is the index of C4-C6;  *)
(* here its query is the scan of the vertices that it is equivalent to.    *)
(* The radius of the query is the default 1e-8: two centres of circles     *)
(* through grid points are either equal or much farther apart than that,   *)
(* so a vertex is within the radius of a centre when their coordinates are *)
(* equal.                                                                  *)
(***************************************************************************)
PointDCEL(xy) == [xy |-> xy, edge |-> None]

EdgeDCEL(src, dest) == [src |-> src, dest |-> dest, twin |-> None, next |-> None, prev |-> None]

WithinMergeRadius(p, q) == p = q

\* DoublyConnectedEdgeList.get_closest_vertex
get_closest_vertex(M, point) ==
    LET close == {k \in 1..Len(M.vertices) : WithinMergeRadius(M.points[M.vertices[k]].xy, point)}
    IN  IF close = {} THEN None
        ELSE M.vertices[CHOOSE k \in close : \A j \in close : k <= j]

\* DoublyConnectedEdgeList.add_vertex: ret is the vertex
add_vertex(M, point) ==
    IF get_closest_vertex(M, point) # None
    THEN Fail(M, "add_vertex: assert self.get_closest_vertex(point, radius) == None")
    ELSE [M EXCEPT !.points = Append(@, PointDCEL(point)),
                   !.vertices = Append(@, Len(M.points) + 1),
                   !.ret = Len(M.points) + 1]

\* every circle event gets a vertex of its own
vertex_of_always_new(M, point) ==
    [M EXCEPT !.points = Append(@, PointDCEL(point)),
              !.vertices = Append(@, Len(M.points) + 1),
              !.ret = Len(M.points) + 1,
              !.n_vertices = @ + 1]

\* the vertex of a circle event: an existing one within the radius, or a new one
vertex_of(M, point) ==
    LET Found(v) ==
            IF v # None THEN [M EXCEPT !.ret = v]
            ELSE [add_vertex(M, point) EXCEPT !.n_vertices = @ + 1]
    IN  Found(get_closest_vertex(M, point))

\* create_edge without the test that the two ends are one vertex
create_edge_no_identity_test(M, src, dest) ==
    LET e01 == Len(M.edges) + 1
        e10 == Len(M.edges) + 2
    IN  IF M.err # "" THEN M
        ELSE IF \A k \in 1..Len(M.vertices) : M.points[M.vertices[k]].xy # M.points[src].xy
        THEN Fail(M, "create_edge: assert self._vertex_tree.contains(src)")
        ELSE IF M.points[src].xy = M.points[dest].xy
        THEN Fail(M, "create_edge: assert src != dest")
        ELSE [M EXCEPT
                !.edges = @ \o <<[EdgeDCEL(src, dest) EXCEPT !.twin = e10, !.next = M.points[src].edge],
                                 [EdgeDCEL(dest, src) EXCEPT !.twin = e01, !.next = M.points[dest].edge]>>,
                !.points = [@ EXCEPT ![src].edge = e01, ![dest].edge = e10],
                !.ret = e01]

\* DoublyConnectedEdgeList.create_edge: ret is the half-edge e01, or None
create_edge(M, src, dest) ==
    LET e01 == Len(M.edges) + 1
        e10 == Len(M.edges) + 2
    IN  IF M.err # "" THEN M
        ELSE IF \A k \in 1..Len(M.vertices) : M.points[M.vertices[k]].xy # M.points[src].xy
        THEN Fail(M, "create_edge: assert self._vertex_tree.contains(src)")
        ELSE IF src = dest THEN [M EXCEPT !.ret = None]
        ELSE IF M.points[src].xy = M.points[dest].xy
        THEN Fail(M, "create_edge: assert src != dest")
        ELSE [M EXCEPT
                !.edges = @ \o <<[EdgeDCEL(src, dest) EXCEPT !.twin = e10, !.next = M.points[src].edge],
                                 [EdgeDCEL(dest, src) EXCEPT !.twin = e01, !.next = M.points[dest].edge]>>,
                !.points = [@ EXCEPT ![src].edge = e01, ![dest].edge = e10],
                !.ret = e01]

\* the caller counts no edge
counted_edge_never(M) == M

\* the caller counts an edge whatever create_edge has returned
counted_edge_always(M) == IF M.err = "" THEN [M EXCEPT !.n_edges = @ + 1] ELSE M

\* the caller counts the edge that create_edge has made
counted_edge(M) == IF M.err = "" /\ M.ret # None THEN [M EXCEPT !.n_edges = @ + 1] ELSE M

\* EdgeDCEL.prev setter
set_prev(M, e, p) ==
    IF M.err # "" THEN M
    ELSE IF M.edges[e].src # M.edges[p].dest THEN Fail(M, "prev: assert self.src is edge.dest")
    ELSE [M EXCEPT !.edges[e].prev = p]

\* a setter that links the twin of the edge
set_next_to_twin(M, e, n) ==
    IF M.err # "" THEN M ELSE [M EXCEPT !.edges[e].next = M.edges[n].twin]

\* EdgeDCEL.next setter
set_next(M, e, n) ==
    IF M.err # "" THEN M
    ELSE IF M.edges[e].dest # M.edges[n].src THEN Fail(M, "next: assert self.dest is edge.src")
    ELSE [M EXCEPT !.edges[e].next = n]

\* the edges of the linked list that create_edge keeps in _next
RECURSIVE linked_list(_, _)
linked_list(E, e) == IF E[e].next = None THEN <<e>> ELSE <<e>> \o linked_list(E, E[e].next)

\* the direction from c to d as a pair of integers in lowest terms
Direction(c, d) ==
    LET Lowest(a, b, g) == IF g = 0 THEN <<0, 0>> ELSE <<a \div g, b \div g>>
        Whole(a, b) == Lowest(a, b, GCD(Abs(a), Abs(b)))
        Scaled(dx, dy, g) == Whole(dx[1] * (dy[2] \div g), dy[1] * (dx[2] \div g))
        Delta(dx, dy) == Scaled(dx, dy, GCD(dx[2], dy[2]))
    IN  Delta(RSub(d[1], c[1]), RSub(d[2], c[2]))

\* calc_theta(a) < calc_theta(b) for the directions a and b: the angle is
\* arccos(cosine) in the upper half plane and 2 pi - arccos(cosine) below
theta_lt(a, b) ==
    LET Half(v) == IF v[2] >= 0 THEN 0 ELSE 1
        Cosine(v) == Rat(Sign(v[1]) * v[1] * v[1], v[1] * v[1] + v[2] * v[2])
    IN  \/ Half(a) < Half(b)
        \/ /\ Half(a) = Half(b)
           /\ IF Half(a) = 0 THEN RLt(Cosine(b), Cosine(a)) ELSE RLt(Cosine(a), Cosine(b))

\* list.sort(key=calc_theta): a stable sort of the edges about their source
RECURSIVE sort_by_theta(_, _, _, _)
sort_by_theta(M, list, k, sorted) ==
    LET Dir(e) == Direction(M.points[M.edges[e].src].xy, M.points[M.edges[e].dest].xy)
        Before(e) == {j \in 1..Len(sorted) : ~theta_lt(Dir(e), Dir(sorted[j]))}
        Place(e, n) == SubSeq(sorted, 1, n) \o <<e>> \o SubSeq(sorted, n + 1, Len(sorted))
    IN  IF k > Len(list) THEN sorted
        ELSE sort_by_theta(M, list, k + 1, Place(list[k], Cardinality(Before(list[k]))))

\* a loop that gives every edge of the sorted list the twin of the first
RECURSIVE set_prevs_to_first(_, _, _)
set_prevs_to_first(M, sorted, k) ==
    IF k > Len(sorted) THEN M
    ELSE set_prevs_to_first(set_prev(M, sorted[k], M.edges[sorted[1]].twin), sorted, k + 1)

\* edge0.prev = edge1.twin around the sorted list
RECURSIVE set_prevs(_, _, _)
set_prevs(M, sorted, k) ==
    IF k > Len(sorted) THEN M
    ELSE set_prevs(set_prev(M, sorted[k],
                            M.edges[sorted[IF k = Len(sorted) THEN 1 ELSE k + 1]].twin),
                   sorted, k + 1)

\* the first loop of DoublyConnectedEdgeList.postprocess
RECURSIVE postprocess_vertices(_, _)
postprocess_vertices(M, k) ==
    IF k > Len(M.vertices) \/ M.err # "" THEN M
    ELSE IF M.points[M.vertices[k]].edge = None
    THEN Fail(M, "postprocess: assert edge is not None")
    ELSE postprocess_vertices(
             set_prevs(M, sort_by_theta(M, linked_list(M.edges, M.points[M.vertices[k]].edge),
                                        1, <<>>), 1),
             k + 1)

\* the second loop of DoublyConnectedEdgeList.postprocess
RECURSIVE postprocess_edges(_, _)
postprocess_edges(M, e) ==
    LET Linked(M1) == IF M1.err # "" THEN M1 ELSE set_next(M1, M1.edges[e].prev, e)
    IN  IF e > Len(M.edges) \/ M.err # "" THEN M
        ELSE IF M.edges[e].prev # None THEN postprocess_edges(Linked(M), e + 1)
        ELSE IF M.edges[M.edges[e].twin].prev = None
        THEN Fail(M, "postprocess: assert edge.twin._prev is not None")
        ELSE postprocess_edges(Linked(set_prev(M, e, M.edges[e].twin)), e + 1)

\* DoublyConnectedEdgeList.postprocess
DCEL_postprocess(M) == postprocess_edges(postprocess_vertices(M, 1), 1)

(***************************************************************************)
(* voronoi_diagram.py                                                      *)
(***************************************************************************)
\* a push that leaves a leaf that has a circle event with that event
push_circle_event_unlinked(M, node, circle) ==
    IF M.err # "" THEN M
    ELSE [M EXCEPT !.events = Append(@, [circle EXCEPT !.node = node]),
                   !.queue = @ \cup {<<"circle", Len(M.events) + 1>>},
                   !.nodes[node].circle = IF @ = None THEN Len(M.events) + 1 ELSE @]

\* the end of _add_circle_event: heappush(self._queue, circle),
\* node._circle = circle and circle.node = node
push_circle_event(M, node, circle) ==
    IF M.err # "" THEN M
    ELSE [M EXCEPT !.events = Append(@, [circle EXCEPT !.node = node]),
                   !.queue = @ \cup {<<"circle", Len(M.events) + 1>>},
                   !.nodes[node].circle = Len(M.events) + 1]

\* an _add_circle_event that does not deactivate the event that the
\* candidate takes the place of
add_circle_event_without_deactivate(M, nodeL, node, nodeR, keep_on_tie) ==
    LET Lower(circle, old, c) ==
            IF c < 0 \/ (c = 0 /\ ~keep_on_tie)
            THEN push_circle_event(M, node, circle)
            ELSE M
        Made(circle) ==
            IF circle = NoCircle THEN Fail(M, "_add_circle_event: assert circle is not None")
            ELSE IF M.nodes[node].circle # None
            THEN Lower(circle, M.nodes[node].circle,
                       CircleYCmp(circle, M.events[M.nodes[node].circle]))
            ELSE push_circle_event(M, node, circle)
    IN  IF M.err # "" \/ nodeL = None \/ node = None \/ nodeR = None THEN M
        ELSE IF ~is_right(sites[M.nodes[nodeR].value], sites[M.nodes[node].value],
                          sites[M.nodes[nodeL].value]) THEN M
        ELSE Made(make_circle_event(sites[M.nodes[nodeL].value], sites[M.nodes[node].value],
                                    sites[M.nodes[nodeR].value]))

\* an _add_circle_event that keeps the event that the arc has, whatever the
\* candidate
add_circle_event_keeps_old(M, nodeL, node, nodeR, keep_on_tie) ==
    LET Made(circle) ==
            IF circle = NoCircle THEN Fail(M, "_add_circle_event: assert circle is not None")
            ELSE IF M.nodes[node].circle # None THEN M
            ELSE push_circle_event(M, node, circle)
    IN  IF M.err # "" \/ nodeL = None \/ node = None \/ nodeR = None THEN M
        ELSE IF ~is_right(sites[M.nodes[nodeR].value], sites[M.nodes[node].value],
                          sites[M.nodes[nodeL].value]) THEN M
        ELSE Made(make_circle_event(sites[M.nodes[nodeL].value], sites[M.nodes[node].value],
                                    sites[M.nodes[nodeR].value]))

\* _add_circle_event.  keep_on_tie is the outcome of the comparison of the
\* floats circle._point.y < node.circle._point.y when the two numbers are
\* equal: the rounding of either decides it.
add_circle_event(M, nodeL, node, nodeR, keep_on_tie) ==
    LET Lower(circle, old, c) ==
            IF c < 0 \/ (c = 0 /\ ~keep_on_tie)
            THEN push_circle_event(deactivate(M, old), node, circle)
            ELSE M
        Made(circle) ==
            IF M.nodes[node].circle # None
            THEN Lower(circle, M.nodes[node].circle,
                       CircleYCmp(circle, M.events[M.nodes[node].circle]))
            ELSE push_circle_event(M, node, circle)
        From(circle) ==
            IF circle = NoCircle THEN Fail(M, "_add_circle_event: assert circle is not None")
            ELSE Made([circle EXCEPT !.foci = <<M.nodes[nodeL].value, M.nodes[nodeR].value>>])
    IN  IF M.err # "" \/ nodeL = None \/ node = None \/ nodeR = None THEN M
        ELSE IF ~is_right(sites[M.nodes[nodeR].value], sites[M.nodes[node].value],
                          sites[M.nodes[nodeL].value]) THEN M
        ELSE From(make_circle_event(sites[M.nodes[nodeL].value], sites[M.nodes[node].value],
                                    sites[M.nodes[nodeR].value]))

\* the two calls of _add_circle_event that end both handlers, on the leaves
\* t1 and t2
add_circle_events(M, t1, t2, ties) ==
    add_circle_event(add_circle_event(M, t1[1], t1[2], t1[3], ties[1]),
                     t2[1], t2[2], t2[3], ties[2])

\* _handle_site_event of the site p
handle_site_event(M, p, ties) ==
    LET Around(M1, nodeL, node, nodeR) ==
            add_circle_events(M1,
                <<IF nodeL = None THEN None ELSE get_predecessor(M1.nodes, M1.root, nodeL),
                  nodeL, node>>,
                <<node, nodeR,
                  IF nodeR = None THEN None ELSE get_successor(M1.nodes, M1.root, nodeR)>>,
                ties)
        Inserted(M1) ==
            IF M1.err # "" THEN M1
            ELSE Around(M1, get_predecessor(M1.nodes, M1.root, M1.ret), M1.ret,
                        get_successor(M1.nodes, M1.root, M1.ret))
    IN  Inserted(TreeVD_insert(M, p))

\* _handle_circle_event of an active event
handle_circle_event(M, event, ties) ==
    LET node == M.events[event].node
        nodeL == get_predecessor(M.nodes, M.root, node)
        nodeR == get_successor(M.nodes, M.root, node)
        nodeLL == IF nodeL = None THEN None ELSE get_predecessor(M.nodes, M.root, nodeL)
        nodeRR == IF nodeR = None THEN None ELSE get_successor(M.nodes, M.root, nodeR)
        Closed(M1, b) ==
            IF M1.err = "" /\ is_closed(M1, M1.nodes[b].edge)
            THEN counted_edge(create_edge(M1, M1.vedges[M1.nodes[b].edge][1],
                                          M1.vedges[M1.nodes[b].edge][2]))
            ELSE M1
        Ended(M1, center, b) ==
            IF M1.err # "" THEN M1
            ELSE add_endpoint(add_endpoint(add_endpoint(M1, M1.nodes[b[2]].edge, center),
                                           M1.nodes[b[3]].edge, center),
                              M1.nodes[b[1]].edge, center)
        Deleted(M1, center, b) ==
            add_circle_events(Closed(Closed(Ended(M1, center, b), b[2]), b[3]),
                              <<nodeLL, nodeL, nodeR>>, <<nodeL, nodeR, nodeRR>>, ties)
        Centred(M1) ==
            LET Await(M2) == IF M2.err # "" THEN M2 ELSE Deleted(M2, M1.ret, M2.ret)
            IN  Await(TreeVD_delete_node(M1, node))
    IN  Centred(vertex_of(M, M.events[event].center))

\* get_intersection of _bound_voronoi_diagram for the sites p0 and p1 within
\* the limits L
get_intersection(L, p0, p1) ==
    LET Clamp(a, b, c, x) ==
            IF RLt(L.xmax, x) THEN <<L.xmax, RDiv(RSub(c, RMul(a, L.xmax)), b)>>
            ELSE IF RLt(x, L.xmin) THEN <<L.xmin, RDiv(RSub(c, RMul(a, L.xmin)), b)>>
            ELSE <<x, IF RLt(p0[1], p1[1]) THEN L.ymax ELSE L.ymin>>
        Line(l, y) == Clamp(l[1], l[2], l[3], RDiv(RSub(l[3], RMul(l[2], y)), l[1]))
    IN  IF p0[1] = p1[1]
        THEN <<IF RLt(p1[2], p0[2]) THEN L.xmax ELSE L.xmin, RDiv(RAdd(p0[2], p1[2]), RInt(2))>>
        ELSE IF p0[2] = p1[2]
        THEN <<RDiv(RAdd(p0[1], p1[1]), RInt(2)), IF RLt(p1[1], p0[1]) THEN L.ymin ELSE L.ymax>>
        ELSE Line(perpendicular_line_parameters(p0, p1),
                  IF RLt(p0[1], p1[1]) THEN L.ymax ELSE L.ymin)

\* the least and the greatest of a set of numbers
RMinOf(S) == CHOOSE a \in S : \A b \in S : RLe(a, b)

RMaxOf(S) == CHOOSE a \in S : \A b \in S : RLe(b, a)

\* the bounds of the vertices and the sites, scaled about their middle
scaled_limits(M, B, scale) ==
    LET xs == {M.points[M.vertices[k]].xy[1] : k \in 1..Len(M.vertices)}
        ys == {M.points[M.vertices[k]].xy[2] : k \in 1..Len(M.vertices)}
        Lo(min, max) == RSub(RDiv(RAdd(min, max), RInt(2)),
                             RDiv(RMul(scale, RSub(max, min)), RInt(2)))
        Hi(min, max) == RAdd(RDiv(RAdd(min, max), RInt(2)),
                             RDiv(RMul(scale, RSub(max, min)), RInt(2)))
        Limits(xmin, xmax, ymin, ymax) ==
            [xmin |-> Lo(xmin, xmax), xmax |-> Hi(xmin, xmax),
             ymin |-> Lo(ymin, ymax), ymax |-> Hi(ymin, ymax)]
    IN  Limits(RMin(RMinOf(xs), B.xmin), RMax(RMaxOf(xs), B.xmax),
               RMin(RMinOf(ys), B.ymin), RMax(RMaxOf(ys), B.ymax))

\* the loop of _bound_voronoi_diagram over the internal nodes
RECURSIVE bound_loop(_, _, _, _)
bound_loop(M, internals, k, L) ==
    LET Edge(M1, center) ==
            IF M1.err # "" THEN M1
            ELSE [create_edge(M1, center, Len(M1.points)) EXCEPT !.n_edges = @ + 1]
        Ray(center, intersection) ==
            IF intersection = M.points[center].xy
            THEN Fail(M, "_bound_voronoi_diagram: assert not np.isclose(distance, 0)")
            ELSE Edge([M EXCEPT !.points = Append(@, PointDCEL(intersection))], center)
        Open(node) ==
            IF is_closed(M, node.edge)
            THEN Fail(M, "_bound_voronoi_diagram: assert not node.edge.is_closed()")
            ELSE IF M.vedges[node.edge][1] = None
            THEN Fail(M, "_bound_voronoi_diagram: assert center is not None")
            ELSE Ray(M.vedges[node.edge][1],
                     get_intersection(L, sites[node.internal[1]], sites[node.internal[2]]))
    IN  IF k > Len(internals) \/ M.err # "" THEN M
        ELSE bound_loop(Open(M.nodes[internals[k]]), internals, k + 1, L)

\* _bound_voronoi_diagram
bound_voronoi_diagram(M, B, scale) ==
    IF M.vertices = <<>> THEN Fail(M, "get_bounds: assert self._root is not None")
    ELSE bound_loop(M, get_internals(M.nodes, <<M.root>>) \o M.colinear_nodes, 1,
                    scaled_limits(M, B, scale))

\* postprocess
VD_postprocess(M, B, scale) ==
    LET Bounded(M1) == IF M1.err # "" THEN M1 ELSE DCEL_postprocess(M1)
    IN  Bounded(bound_voronoi_diagram(M, B, scale))

\* _update_min_max
update_min_max(B, point) ==
    [xmin |-> RMin(B.xmin, point[1]), xmax |-> RMax(B.xmax, point[1]),
     ymin |-> RMin(B.ymin, point[2]), ymax |-> RMax(B.ymax, point[2])]

(***************************************************************************)
(* The event queue.  heapq keeps the events in the order of Event.__lt__;  *)
(* the model keeps the set of the events and pops any event that none of   *)
(* the others precedes.  The y of a circle event is a rounded sum of       *)
(* floats, so of two events with the same exact y, one of them of a        *)
(* circle, either may be the lesser.                                       *)
(***************************************************************************)
\* the point of an event in the form of a circle event
EventPoint(ev) ==
    IF ev[1] = "site"
    THEN [center |-> sites[ev[2]], radius2 |-> RInt(0)]
    ELSE [center |-> events[ev[2]].center, radius2 |-> events[ev[2]].radius2]

\* Event.__lt__ certainly holds
Event_lt(a, b) ==
    LET Ordered(c) ==
            IF a[1] = "site" /\ b[1] = "site" /\ c = 0
            THEN RLt(sites[a[2]][1], sites[b[2]][1])
            ELSE c < 0
    IN  Ordered(CircleYCmp(EventPoint(a), EventPoint(b)))

\* a queue that is no heap: any event may be popped
Poppable_unordered == queue

\* the events that heapq.heappop may return
Poppable == {a \in queue : \A b \in queue : ~Event_lt(b, a)}

Ties == BOOLEAN \X BOOLEAN

(***************************************************************************)
(* The program: the construction, run, one round of its loop at a time,    *)
(* and postprocess.                                                        *)
(***************************************************************************)
Grid == {Pt(x, y) : x \in 0..MaxCoord, y \in 0..MaxCoord}

\* the order in which run pops the sites
SiteLe(p, q) == RLt(p[2], q[2]) \/ (p[2] = q[2] /\ RLe(p[1], q[1]))

\* the lists of sites: run pushes every site on the queue before it pops the
\* first, so the order of the list is of no effect and the lists are taken
\* in the order of the queue
SiteLists ==
    {s \in UNION {[1..n -> Grid] : n \in 0..MaxSites} :
        \A i \in 1..(Len(s) - 1) : SiteLe(s[i], s[i + 1])}

Scale == Rat(11, 10)

Cur ==
    [nodes |-> nodes, root |-> root, colinear_points |-> colinear_points,
     colinear_nodes |-> colinear_nodes, vedges |-> vedges, events |-> events,
     queue |-> queue, points |-> points, vertices |-> vertices, edges |-> edges,
     n_vertices |-> n_vertices, n_edges |-> n_edges, err |-> err, ret |-> None]

\* the state after a handler: an assertion that fails ends the program
Commit(M, then) ==
    /\ nodes' = M.nodes
    /\ root' = M.root
    /\ colinear_points' = M.colinear_points
    /\ colinear_nodes' = M.colinear_nodes
    /\ vedges' = M.vedges
    /\ events' = M.events
    /\ queue' = M.queue
    /\ points' = M.points
    /\ vertices' = M.vertices
    /\ edges' = M.edges
    /\ n_vertices' = M.n_vertices
    /\ n_edges' = M.n_edges
    /\ err' = M.err
    /\ pc' = IF M.err # "" THEN "failed" ELSE then

\* a pop that leaves the event in the queue
Popped_left_in_queue(ev) == Cur

\* the state after heapq.heappop has returned ev
Popped(ev) == [Cur EXCEPT !.queue = @ \ {ev}]

Init ==
    /\ pc = "new"
    /\ \E s \in SiteLists : Constructed(s)
    /\ bt = EmptyTree
    /\ bbal = FALSE
    /\ bq = NoQuery
    /\ NoAVL

\* a run that takes no site for a copy
is_duplicate_never(prev, i) == FALSE

\* prev_site and prev_site == event._point
is_duplicate(prev, i) == prev # None /\ sites[prev] = sites[i]

\* run, up to its loop: every site is pushed on the queue
RunStart ==
    /\ pc = "new"
    /\ pc' = "run"
    /\ queue' = {<<"site", i>> : i \in 1..Len(sites)}
    /\ prev_site' = None
    /\ UNCHANGED <<sites, nodes, root, colinear_points, colinear_nodes, vedges, events,
                   points, vertices, edges, n_sites, n_vertices, n_edges, box, err>>
    /\ UNCHANGED <<bvhVars, avlVars>>

\* a round of the loop that pops a site which is not a copy of the last one
HandleSiteEvent(i, ties) ==
    /\ pc = "run"
    /\ <<"site", i>> \in Poppable
    /\ ~is_duplicate(prev_site, i)
    /\ Commit(handle_site_event(Popped(<<"site", i>>), i, ties), "run")
    /\ prev_site' = IF err' = "" THEN i ELSE prev_site
    /\ n_sites' = IF err' = "" THEN n_sites + 1 ELSE n_sites
    /\ box' = IF err' = "" THEN update_min_max(box, sites[i]) ELSE box
    /\ UNCHANGED <<sites, bvhVars, avlVars>>

\* a round of the loop that pops a copy of the last site
SkipDuplicateSite(i) ==
    /\ pc = "run"
    /\ <<"site", i>> \in Poppable
    /\ is_duplicate(prev_site, i)
    /\ queue' = queue \ {<<"site", i>>}
    /\ UNCHANGED <<pc, sites, prev_site, nodes, root, colinear_points, colinear_nodes, vedges,
                   events, points, vertices, edges, n_sites, n_vertices, n_edges, box, err>>
    /\ UNCHANGED <<bvhVars, avlVars>>

\* a round of the loop that pops an active circle event
HandleCircleEvent(j, ties) ==
    /\ pc = "run"
    /\ <<"circle", j>> \in Poppable
    /\ events[j].active
    /\ Commit(handle_circle_event(Popped(<<"circle", j>>), j, ties), "run")
    /\ UNCHANGED <<sites, prev_site, n_sites, box, bvhVars, avlVars>>

\* a round of the loop that handles a circle event that is not active as it
\* handles an active one
HandleInactiveCircleEvent(j) ==
    /\ pc = "run"
    /\ <<"circle", j>> \in Poppable
    /\ ~events[j].active
    /\ Commit(handle_circle_event(Popped(<<"circle", j>>), j, <<TRUE, TRUE>>), "run")
    /\ UNCHANGED <<sites, prev_site, n_sites, box, bvhVars, avlVars>>

\* a round of the loop that pops a circle event that is not active
DiscardCircleEvent(j) ==
    /\ pc = "run"
    /\ <<"circle", j>> \in Poppable
    /\ ~events[j].active
    /\ queue' = queue \ {<<"circle", j>>}
    /\ UNCHANGED <<pc, sites, prev_site, nodes, root, colinear_points, colinear_nodes, vedges,
                   events, points, vertices, edges, n_sites, n_vertices, n_edges, box, err>>
    /\ UNCHANGED <<bvhVars, avlVars>>

\* postprocess, after run has returned
Postprocess ==
    /\ pc = "run"
    /\ queue = {}
    /\ Commit(VD_postprocess(Cur, box, Scale), "done")
    /\ UNCHANGED <<sites, prev_site, n_sites, box, bvhVars, avlVars>>

Next ==
    \/ RunStart
    \/ \E i \in 1..Len(sites), ties \in Ties : HandleSiteEvent(i, ties)
    \/ \E i \in 1..Len(sites) : SkipDuplicateSite(i)
    \/ \E j \in 1..Len(events), ties \in Ties : HandleCircleEvent(j, ties)
    \/ \E j \in 1..Len(events) : DiscardCircleEvent(j)
    \/ Postprocess

vars == <<vdVars, bvhVars, avlVars>>

Spec == Init /\ [][Next]_vars

(***************************************************************************)
(* trees/tree_avl.py: ScalarTreeAVL, the AVL tree of scalars that the      *)
(* tests of TreeAVL use.  The scalars are integers; None is not one.       *)
(***************************************************************************)
MaxKey == 5
MaxInserts == 5

LeafAVL(value) ==
    [kind |-> "leaf", parent |-> None, left |-> None, right |-> None, height |-> 0,
     value |-> value, internal |-> <<None, None>>]

InternalAVL(x, y) ==
    [kind |-> "internal", parent |-> None, left |-> None, right |-> None, height |-> 0,
     value |-> None, internal |-> <<x, y>>]

\* ScalarTreeAVL._get_sibling, from the node sibling down
RECURSIVE ScalarTreeAVL_get_sibling(_, _, _)
ScalarTreeAVL_get_sibling(N, sibling, x) ==
    IF N[sibling].kind = "leaf" THEN sibling
    ELSE IF x < N[sibling].internal[1] THEN ScalarTreeAVL_get_sibling(N, N[sibling].left, x)
    ELSE ScalarTreeAVL_get_sibling(N, N[sibling].right, x)

\* ScalarTreeAVL._insert: the new leaf is the last node but one, the new
\* internal node the last
ScalarTreeAVL__insert(T, x, sibling) ==
    LET N == T.nodes
        node == Len(N) + 1
        internal == Len(N) + 2
        up == N[sibling].parent
        Made ==
            IF x < N[sibling].value
            THEN [InternalAVL(x, N[sibling].value) EXCEPT !.left = node, !.right = sibling]
            ELSE [InternalAVL(N[sibling].value, x) EXCEPT !.left = sibling, !.right = node]
        Added == [N EXCEPT ![sibling].parent = internal]
                    \o <<[LeafAVL(x) EXCEPT !.parent = internal]>>
    IN  IF sibling = T.root
        THEN [T EXCEPT !.nodes = Append(Added, Made), !.root = internal]
        ELSE IF N[up].left = sibling
        THEN [T EXCEPT !.nodes = [Append(Added, [Made EXCEPT !.parent = up])
                                    EXCEPT ![up].left = internal]]
        ELSE [T EXCEPT !.nodes = [Append(Added, [Made EXCEPT !.parent = up])
                                    EXCEPT ![up].right = internal]]

\* the loops of ScalarTreeAVL._update_internals for a new leaf that is the
\* child of its parent on the given side
RECURSIVE update_internals_loop(_, _, _, _)
update_internals_loop(T, current, node, side) ==
    LET parent == T.nodes[current].parent
    IN  IF T.nodes[parent][Opposite(side)] = current
        THEN [T EXCEPT !.nodes[parent].internal[IF side = "left" THEN 2 ELSE 1] =
                            T.nodes[node].value]
        ELSE IF parent = T.root THEN T
        ELSE update_internals_loop(T, parent, node, side)

\* ScalarTreeAVL._update_internals
ScalarTreeAVL_update_internals(T, node) ==
    IF node = T.root \/ T.nodes[node].parent = T.root THEN T
    ELSE update_internals_loop(T, T.nodes[node].parent, node,
                               IF T.nodes[T.nodes[node].parent].left = node
                               THEN "left" ELSE "right")

\* an insert that leaves the tree as _update_internals has left it
ScalarTreeAVL_insert_without_rebalance(T, x) ==
    LET Inserted(T1) == ScalarTreeAVL_update_internals(T1, Len(T1.nodes) - 1)
    IN  IF T.root = None THEN [nodes |-> <<LeafAVL(x)>>, root |-> 1]
        ELSE Inserted(ScalarTreeAVL__insert(T, x,
                          ScalarTreeAVL_get_sibling(T.nodes, T.root, x)))

\* ScalarTreeAVL.insert
ScalarTreeAVL_insert(T, x) ==
    LET Inserted(T1) ==
            AVL_rebalance(ScalarTreeAVL_update_internals(T1, Len(T1.nodes) - 1),
                          Len(T1.nodes) - 1)
    IN  IF T.root = None THEN [nodes |-> <<LeafAVL(x)>>, root |-> 1]
        ELSE Inserted(ScalarTreeAVL__insert(T, x,
                          ScalarTreeAVL_get_sibling(T.nodes, T.root, x)))

AVLInit ==
    /\ NoAVL
    /\ pc = "none"
    /\ Constructed(<<>>)
    /\ bt = EmptyTree
    /\ bbal = FALSE
    /\ bq = NoQuery

\* tree.insert(x)
AVLInsert(x) ==
    /\ Len(avl_inserted) < MaxInserts
    /\ avl' = ScalarTreeAVL_insert(avl, x)
    /\ avl_inserted' = Append(avl_inserted, x)
    /\ UNCHANGED <<vdVars, bvhVars>>

AVLNext == \E x \in 1..MaxKey : AVLInsert(x)

SpecAVL == AVLInit /\ [][AVLNext]_vars

(***************************************************************************)
(* Properties of the diagram.                                              *)
(***************************************************************************)
\* the nodes of the beachline: those that are reached from the node i
RECURSIVE Beachline(_, _)
Beachline(N, i) ==
    IF i = None THEN {}
    ELSE IF N[i].kind = "leaf" THEN {i}
    ELSE {i} \cup Beachline(N, N[i].left) \cup Beachline(N, N[i].right)

\* the circle events that run has popped and handled
Handled == {j \in 1..Len(events) : events[j].active /\ <<"circle", j>> \notin queue}

\* the sites that run has popped
PoppedSites == {i \in 1..Len(sites) : <<"site", i>> \notin queue}

\* C1: after run and postprocess, every half-edge e has e.twin.twin = e,
\* e.twin.src = e.dest, e.twin.dest = e.src, e.next.src = e.dest and
\* e.prev.dest = e.src, the vertices compared by identity.
C1_DCELConsistency ==
    pc = "done" =>
        \A e \in 1..Len(edges) :
            /\ edges[e].twin # None /\ edges[e].next # None /\ edges[e].prev # None
            /\ edges[edges[e].twin].twin = e
            /\ edges[edges[e].twin].src = edges[e].dest
            /\ edges[edges[e].twin].dest = edges[e].src
            /\ edges[edges[e].next].src = edges[e].dest
            /\ edges[edges[e].prev].dest = edges[e].src

\* a finished diagram with a vertex of three edges or more, one of them to
\* another vertex and one of them to a point on the boundary
C1_Witness ==
    /\ pc = "done"
    /\ \E v \in 1..Len(vertices) :
          /\ Cardinality({e \in 1..Len(edges) : edges[e].src = vertices[v]}) >= 3
          /\ \E e \in 1..Len(edges), w \in 1..Len(vertices) :
                 edges[e].src = vertices[v] /\ edges[e].dest = vertices[w]
          /\ \E e \in 1..Len(edges) :
                 /\ edges[e].src = vertices[v]
                 /\ \A w \in 1..Len(vertices) : edges[e].dest # vertices[w]

\* the half-edge reached from e by following next n times
RECURSIVE FollowNext(_, _)
FollowNext(e, n) == IF n = 0 THEN e ELSE FollowNext(edges[e].next, n - 1)

\* C2: after run and postprocess, every half-edge has its twin, next and prev
\* set, next and prev are inverse to each other over the whole list of
\* half-edges, and following next from a half-edge returns to it.
C2_NextPrevInverse ==
    pc = "done" =>
        /\ \A e \in 1..Len(edges) :
              edges[e].twin # None /\ edges[e].next # None /\ edges[e].prev # None
        /\ \A e \in 1..Len(edges) :
              edges[edges[e].next].prev = e /\ edges[edges[e].prev].next = e
        /\ \A e \in 1..Len(edges) : \E n \in 1..Len(edges) : FollowNext(e, n) = e

\* a finished diagram of two vertices or more in which the walk along next
\* from a half-edge takes more than two steps to return
C2_Witness ==
    /\ pc = "done"
    /\ Len(vertices) >= 2
    /\ \E e \in 1..Len(edges) :
          /\ edges[e].next # None /\ edges[e].next # edges[e].twin
          /\ FollowNext(e, 2) # e
          /\ \E n \in 3..Len(edges) : FollowNext(e, n) = e

\* C3: after every insert into the beachline, in the regime of colinear
\* sites and in the normal one, and after every delete_node, every internal
\* node has children whose heights differ by one at most and a stored height
\* of one more than the greater height of its children.
C3_AVLBalance ==
    \A i \in Beachline(nodes, root) :
        nodes[i].kind = "internal" =>
            /\ imbalance(nodes, i) \in -1..1
            /\ nodes[i].height = 1 + Max(nodes[nodes[i].left].height,
                                         nodes[nodes[i].right].height)

\* a beachline of height three or more that has seen an insert of a colinear
\* site, an insert that split an arc and the deletion of an arc
C3_Witness ==
    /\ colinear_nodes # <<>>
    /\ ~colinear_points
    /\ n_vertices >= 1
    /\ root # None
    /\ nodes[root].height >= 3

\* C7: no two vertices of the DCEL lie within the merge radius of each
\* other: the circle events that were handled have one vertex for each of
\* their centres, and n_vertices counts those vertices.
C7_NoCloseVertices ==
    /\ \A a, b \in 1..Len(vertices) :
          a # b => ~WithinMergeRadius(points[vertices[a]].xy, points[vertices[b]].xy)
    /\ n_vertices = Len(vertices)
    /\ err = "" =>
          {points[vertices[k]].xy : k \in 1..Len(vertices)} = {events[j].center : j \in Handled}

\* two circle events of one centre have been handled and share the vertex
C7_Witness ==
    /\ err = ""
    /\ \E i, j \in Handled : i # j /\ events[i].center = events[j].center
    /\ n_vertices < Cardinality(Handled)

\* C8: a round of run that pops a circle event that is not active changes
\* nothing but the queue, which loses that event and gains none.
C8_InactiveDiscarded ==
    [][\A j \in 1..Len(events) :
          (pc = "run" /\ ~events[j].active /\ <<"circle", j>> \in queue
             /\ <<"circle", j>> \notin queue')
          => /\ queue' = queue \ {<<"circle", j>>}
             /\ UNCHANGED <<pc, nodes, root, colinear_points, colinear_nodes, vedges, events,
                            points, vertices, edges, n_sites, n_vertices, n_edges>>]_vars

\* a circle event that is not active has been popped while others wait
C8_Witness ==
    /\ pc = "run"
    /\ \E j \in 1..Len(events) : ~events[j].active /\ <<"circle", j>> \notin queue
    /\ \E j \in 1..Len(events) : <<"circle", j>> \in queue

\* C9: no call of CircleEvent.deactivate, from the insert of a site that
\* splits the arc of the event or from _add_circle_event that replaces the
\* event by a lower circle, is made on an event that is not active: the
\* assertion never fails, because the event that a leaf of the beachline
\* refers to, the only one that either call deactivates, is active.
C9_DeactivatedOnce ==
    /\ err # "deactivate: assert self._active"
    /\ \A i \in Beachline(nodes, root) :
          nodes[i].circle # None => events[nodes[i].circle].active

\* an event was deactivated by a lower circle of its leaf and waits in the
\* queue, while the leaf is on the beachline with the later event
C9_Witness ==
    /\ err = ""
    /\ \E j \in 1..Len(events) :
          /\ ~events[j].active
          /\ <<"circle", j>> \in queue
          /\ events[j].node \in Beachline(nodes, root)
          /\ nodes[events[j].node].circle > j
          /\ CircleYCmp(events[nodes[events[j].node].circle], events[j]) < 0

\* C10: run counts one site for every distinct point that it has popped, and
\* the round that pops a further copy of a point changes nothing but the
\* queue, which loses that copy; so n_sites ends as the number of distinct
\* sites.
C10_DuplicatesSkipped ==
    /\ [](pc = "run" => n_sites = Cardinality({sites[i] : i \in PoppedSites}))
    /\ [][\A i \in 1..Len(sites) :
            (pc = "run" /\ is_duplicate(prev_site, i) /\ <<"site", i>> \in queue
               /\ <<"site", i>> \notin queue')
            => /\ queue' = queue \ {<<"site", i>>}
               /\ UNCHANGED <<pc, prev_site, nodes, root, colinear_points, colinear_nodes,
                              vedges, events, points, vertices, edges, n_sites, n_vertices,
                              n_edges>>]_vars

\* a copy of the last site waits in the queue after a circle event whose
\* point has the y of the copy has been handled
C10_Witness ==
    /\ pc = "run"
    /\ \E i \in 1..Len(sites) :
          /\ <<"site", i>> \in queue
          /\ is_duplicate(prev_site, i)
          /\ \E j \in Handled : CircleYCmp(events[j], EventPoint(<<"site", i>>)) = 0


(***************************************************************************)
(* C11.  create_edge with one vertex as source and destination.            *)
(***************************************************************************)
\* the edges of the beachline that have both endpoints
ClosedEdges(ve) == {k \in 1..Len(ve) : ve[k][1] # None /\ ve[k][2] # None}

\* the edges that the step has closed
NewlyClosed == ClosedEdges(vedges') \ ClosedEdges(vedges)

\* the edges that the step has closed with one vertex at both ends
ClosedOnOneVertex == {k \in NewlyClosed : vedges'[k][1] = vedges'[k][2]}

OpenBreakpoints ==
    {i \in Beachline(nodes, root) : nodes[i].kind = "internal"}
        \cup {colinear_nodes[k] : k \in 1..Len(colinear_nodes)}

\* the points of the diagram on the boundary
BoundaryPoints == (1..Len(points)) \ {vertices[k] : k \in 1..Len(vertices)}

\* every breakpoint has an edge with one endpoint, and from that endpoint as
\* many half-edges go to the boundary as breakpoints have it for endpoint,
\* each to a boundary point of its own
EveryOpenEdgeClosed ==
    /\ \A b \in OpenBreakpoints :
            /\ vedges[nodes[b].edge][1] # None
            /\ vedges[nodes[b].edge][2] = None
            /\ Cardinality({e \in 1..Len(edges) : /\ edges[e].src = vedges[nodes[b].edge][1]
                                                  /\ edges[e].dest \in BoundaryPoints})
                = Cardinality({c \in OpenBreakpoints :
                                 vedges[nodes[c].edge][1] = vedges[nodes[b].edge][1]})
    /\ Cardinality(BoundaryPoints) = Cardinality(OpenBreakpoints)
    /\ \A p \in BoundaryPoints :
            Cardinality({e \in 1..Len(edges) : edges[e].dest = p}) = 1

\* C12: for every input of two or more distinct sites, postprocess after run
\* ends without an assertion failing, and it closes every open edge: every
\* breakpoint left in the beachline and every node of colinear_nodes has an
\* edge with exactly one endpoint, and exactly one pair of half-edges joins
\* that endpoint to a boundary point for it.
C12_PostprocessClosesEveryEdge ==
    Cardinality({sites[i] : i \in 1..Len(sites)}) >= 2 =>
        /\ pc # "failed"
        /\ pc = "done" => EveryOpenEdgeClosed


ArcsOf(j) == {n \in 1..Len(nodes) : nodes[n].kind = "leaf" /\ nodes[n].circle = j}

\* C14 as claimed: once a circle event is deactivated, or its arc is removed
\* from the beachline, no arc refers to the event and the event refers to no
\* arc.
C14_BothReferencesCleared ==
    \A j \in 1..Len(events) :
        (~events[j].active \/ events[j].node \notin Beachline(nodes, root)) =>
            /\ ArcsOf(j) = {}
            /\ events[j].node = None

\* C14 as amended: once a circle event is deactivated, no arc refers to it;
\* the reference of an event to its arc is set when the event is made and is
\* never cleared or changed; the arc that a handled circle event removes
\* from the beachline keeps its reference to that event, and only that arc
\* refers to it.
C14_ArcReferenceCleared ==
    /\ [](\A j \in 1..Len(events) :
            /\ ~events[j].active => ArcsOf(j) = {}
            /\ events[j].node # None
            /\ nodes[events[j].node].kind = "leaf"
            /\ ArcsOf(j) \subseteq {events[j].node}
            /\ j \in Handled => /\ ArcsOf(j) = {events[j].node}
                                /\ events[j].node \notin Beachline(nodes, root))
    /\ [][\A j \in 1..Len(events) : events'[j].node = events[j].node]_vars

\* one circle event has been deactivated when a site split its arc, which is
\* out of the beachline and refers to no event, and another has been handled
C14_Witness ==
    /\ err = ""
    /\ \E j \in 1..Len(events) :
            /\ ~events[j].active
            /\ events[j].node \notin Beachline(nodes, root)
            /\ nodes[events[j].node].circle = None
    /\ Handled # {}

(***************************************************************************)
(* C15.  The foci of the internal nodes of the beachline.                  *)
(***************************************************************************)
\* the internal nodes of the beachline
Breakpoints == {i \in Beachline(nodes, root) : nodes[i].kind = "internal"}

\* C15: between events, so after every TreeVD.insert and TreeVD.delete_node
\* with the rotations they make, the pair of every internal node of the
\* beachline is the site of its in-order predecessor leaf and the site of its
\* in-order successor leaf, as the same site objects; the internal node that
\* delete_node makes has the sites of the leaves that were left and right of
\* the deleted arc.
C15_FociInOrder ==
    /\ [](\A i \in Breakpoints :
            nodes[i].internal = <<nodes[get_predecessor(nodes, root, i)].value,
                                  nodes[get_successor(nodes, root, i)].value>>)
    /\ [][\A j \in 1..Len(events) :
            (/\ pc = "run"
             /\ events[j].active
             /\ <<"circle", j>> \in queue
             /\ <<"circle", j>> \notin queue') =>
                /\ err' = ""
                /\ Len(nodes') = Len(nodes) + 1
                /\ Len(nodes') \in Beachline(nodes', root')
                /\ nodes'[Len(nodes')].internal =
                        <<nodes[get_predecessor(nodes, root, events[j].node)].value,
                          nodes[get_successor(nodes, root, events[j].node)].value>>]_vars

\* a circle event has been handled, the beachline has height three or more,
\* and below its root is a breakpoint whose edge starts at a vertex and
\* belongs to no other breakpoint, as the one that delete_node makes
C15_Witness ==
    /\ pc = "run"
    /\ err = ""
    /\ Handled # {}
    /\ nodes[root].height >= 3
    /\ \E i \in Breakpoints : /\ vedges[nodes[i].edge][1] # None
                               /\ \A k \in Breakpoints \ {i} : nodes[k].edge # nodes[i].edge
                               /\ nodes[i].parent # None

(***************************************************************************)
(* C16.  The balance of ScalarTreeAVL.                                     *)
(***************************************************************************)
\* C16: after any sequence of inserts of integers into a ScalarTreeAVL, with
\* or without duplicates, every internal node has children whose heights
\* differ by one at most and has the height 1 + the greater height of its
\* children, and the tree has as many leaves as there were inserts.
C16_ScalarAVLBalanced ==
    /\ \A i \in Beachline(avl.nodes, avl.root) :
            avl.nodes[i].kind = "internal" =>
                /\ imbalance(avl.nodes, i) \in -1..1
                /\ avl.nodes[i].height =
                        1 + Max(avl.nodes[avl.nodes[i].left].height,
                                avl.nodes[avl.nodes[i].right].height)
    /\ Cardinality({i \in Beachline(avl.nodes, avl.root) : avl.nodes[i].kind = "leaf"})
            = Len(avl_inserted)

\* five inserts with a duplicate among them have made a tree of height three
\* whose root is not the first internal node, so a rotation has been made
C16_Witness ==
    /\ Len(avl_inserted) = 5
    /\ \E i, j \in 1..5 : i < j /\ avl_inserted[i] = avl_inserted[j]
    /\ avl.nodes[avl.root].height = 3
    /\ avl.root # 3

(***************************************************************************)
(* C17.  Ties of cost in the search for the sibling.                       *)
(***************************************************************************)
\* the pops of the search for the sibling of the point p in the tree bt
SearchPops(p) == TreeBVH_search_pops(bt.nodes, p, << <<FZero, bt.root>> >>, FInf, <<>>)

\* the places in the pops of the nodes of the least node cost
Cheapest(pops) == {k \in 1..Len(pops) : \A j \in 1..Len(pops) : FLe(pops[k][2], pops[j][2])}

FirstCheapest(pops) == pops[CHOOSE k \in Cheapest(pops) : \A j \in Cheapest(pops) : k <= j][1]

LastCheapest(pops) == pops[CHOOSE k \in Cheapest(pops) : \A j \in Cheapest(pops) : j <= k][1]

\* the sibling that TreeBVH._insert gives the new leaf of the point p
SiblingChosen(p) ==
    LET Sibling(T) == T.nodes[Len(T.nodes)].left
    IN  Sibling(TreeBVH__insert(bt, p, 0))

\* C17 as claimed: of the nodes that the search pops with the least node
\* cost, the sibling of the new leaf is the one popped first, for every tree
\* that the inserts make and every point that may be inserted next.
C17_FirstPoppedWins ==
    (bt.root # None /\ bq = NoQuery) => \A p \in BVHGrid : SiblingChosen(p) = FirstCheapest(SearchPops(p))

\* C17 as amended: of the nodes that the search pops with the least node
\* cost, the sibling of the new leaf is the one popped last; an insert into a
\* TreeBVH leaves the new leaf with that sibling.
C17_LastPoppedWins ==
    /\ []((bt.root # None /\ bq = NoQuery) =>
            \A p \in BVHGrid : SiblingChosen(p) = LastCheapest(SearchPops(p)))
    /\ [][(bt' # bt /\ bt.root # None /\ ~bbal) =>
            bt'.nodes[Len(bt'.nodes)].left =
                LastCheapest(SearchPops(bt'.nodes[Len(bt'.nodes) - 1].value))]_vars

\* a tree of three leaves or more where the search for a point pops several
\* nodes of the least cost, the first of them an internal node and the last
\* a leaf below it
C17_Witness ==
    /\ bq = NoQuery
    /\ Cardinality(Leaves(bt.nodes)) >= 3
    /\ \E p \in BVHGrid :
            /\ Cardinality(Cheapest(SearchPops(p))) >= 2
            /\ bt.nodes[FirstCheapest(SearchPops(p))].kind = "internal"
            /\ bt.nodes[LastCheapest(SearchPops(p))].kind = "leaf"
            /\ InSubtree(bt.nodes, LastCheapest(SearchPops(p)), FirstCheapest(SearchPops(p)))

(***************************************************************************)
(* C18.  The balance of a BalancedTreeBVH of identical points.             *)
(***************************************************************************)
\* the passes of _rebalance when the point of the tree is inserted once more
NextPasses ==
    LET Passes(T) == BalancedTreeBVH_rebalance_passes(T.nodes, T.root, Len(T.nodes))
    IN  Passes(TreeBVH_insert(bt, bt.nodes[1].value, 0))

\* the pass swaps a child of the node with a grandchild
SwapApplied(pass) ==
    LET Swapped(N1) ==
            {N1[pass.node].left, N1[pass.node].right}
                # {pass.nodes[pass.node].left, pass.nodes[pass.node].right}
    IN  Swapped(rebalance_step(pass.nodes, pass.node))

\* C18: after any number of inserts of one point into a BalancedTreeBVH the
\* heights of the children of every internal node differ by two at most; in
\* the upward walk of _rebalance, at a node whose imbalance is two or more,
\* one of the four swaps is applied.
C18_IdenticalPointsBalanced ==
    bq = NoQuery =>
        /\ \A i \in Internals(bt.nodes) : Abs(imbalance(bt.nodes, i)) <= 2
        /\ bt.root # None =>
                \A k \in 1..Len(NextPasses) :
                    Abs(imbalance(NextPasses[k].nodes, NextPasses[k].node)) >= 2
                        => SwapApplied(NextPasses[k])

\* the next insert into a tree of five leaves or more meets a node of
\* imbalance two on its walk, not the first of the walk
C18_Witness ==
    /\ bq = NoQuery
    /\ Cardinality(Leaves(bt.nodes)) >= 5
    /\ \E k \in 2..Len(NextPasses) :
            Abs(imbalance(NextPasses[k].nodes, NextPasses[k].node)) = 2

\* the box of the internal node that TreeBVH._insert constructs, before
\* set_box is called on it
NewInternalBox == InternalBVH.box

\* C19: an AABB constructed with no points, as for every new internal node of
\* the vertex index, is the empty box: pmin is +infinity and pmax is
\* -infinity in every dimension, and it contains no point, also after a
\* point was added to it with union.
C19_NewBoxIsEmpty ==
    bt.root # None =>
        /\ NewInternalBox.pmin = <<PosInf, PosInf>>
        /\ NewInternalBox.pmax = <<NegInf, NegInf>>
        /\ \A p \in BVHGrid : ~AABB_contains(NewInternalBox, p)
        /\ \A p, q \in BVHGrid :
                AABB_contains(AABB_union(NewInternalBox, AABB_of(<<q>>)), p) => p = q

\* the events that a round of the loop of run pops (one at most)
PoppedEvents == IF pc = "run" THEN queue \ queue' ELSE {}

\* the events that the handlers of the round push: circle events all
PushedEvents == queue' \ queue

\* the point of an event of the queue after the round
EventPointAfter(ev) ==
    IF ev[1] = "site"
    THEN [center |-> sites[ev[2]], radius2 |-> RInt(0)]
    ELSE [center |-> events'[ev[2]].center, radius2 |-> events'[ev[2]].radius2]

\* the sign of a._point.y - b._point.y in exact arithmetic, after the round
KeyYCmpAfter(a, b) == CircleYCmp(EventPointAfter(a), EventPointAfter(b))

\* the key of a precedes the key of b in exact arithmetic: y first, x on
\* equal y
KeyLtAfter(a, b) ==
    LET Ordered(c) ==
            IF c = 0 THEN RLt(EventPointAfter(a).center[1], EventPointAfter(b).center[1])
            ELSE c < 0
    IN  Ordered(KeyYCmpAfter(a, b))

\* no queued event precedes the popped one
PopIsMinimal == \A ev \in PoppedEvents : \A b \in queue : ~Event_lt(b, ev)

\* the radius of the event is computed without rounding: the square root of
\* radius2 is rational (the radius of a site event is 0)
ExactRadius(ev) ==
    LET Square(n) == \E k \in 0..n : k * k = n
        Both(r) == Square(r[1]) /\ Square(r[2])
    IN  Both(EventPointAfter(ev).radius2)

RECURSIVE InOrderInternals(_, _)
InOrderInternals(N, i) ==
    IF i = None \/ N[i].kind = "leaf" THEN <<>>
    ELSE InOrderInternals(N, N[i].left) \o <<i>> \o InOrderInternals(N, N[i].right)

\* the x of get_parabola_intersection(f0, f1, directrix) for a rational
\* directrix: inf when both foci lie on the directrix, -C / B when they are at
\* one height, else the root (-B - sqrt(D)) / 2A, which is the larger root
\* when f0.y > f1.y and the smaller one otherwise.  The x is p + q * sqrt(D).
get_parabola_intersection(f0, f1, directrix) ==
    LET Linear(B, C) ==
            IF B = RInt(0) THEN [inf |-> TRUE, p |-> RInt(0), q |-> RInt(0), D |-> RInt(0)]
            ELSE [inf |-> FALSE, p |-> RDiv(RNeg(C), B), q |-> RInt(0), D |-> RInt(0)]
        Quadratic(A, B, C) ==
            IF A = RInt(0) THEN Linear(B, C)
            ELSE [inf |-> FALSE,
                  p |-> RDiv(RNeg(B), RMul(RInt(2), A)),
                  q |-> RDiv(RInt(-1), RMul(RInt(2), A)),
                  D |-> RMax(RInt(0), RSub(RSq(B), RMul(RMul(RInt(4), A), C)))]
        Foci(Y0d, Y1d) ==
            Quadratic(RSub(Y1d, Y0d),
                      RMul(RInt(2), RSub(RMul(f1[1], Y0d), RMul(f0[1], Y1d))),
                      RSub(RSub(RMul(RSq(f0[1]), Y1d), RMul(RSq(f1[1]), Y0d)),
                           RMul(RMul(RSub(Y1d, Y0d), Y0d), Y1d)))
    IN  IF f0[2] = directrix /\ f1[2] = directrix
        THEN [inf |-> TRUE, p |-> RInt(0), q |-> RInt(0), D |-> RInt(0)]
        ELSE Foci(RSub(f0[2], directrix), RSub(f1[2], directrix))

\* the sign of a + sqrt(u) + sqrt(v)
SqrtSumSign(a, u, v) ==
    IF RLe(RInt(0), a)
    THEN (IF a = RInt(0) /\ u = RInt(0) /\ v = RInt(0) THEN 0 ELSE 1)
    ELSE SqrtDiffSign(RMul(RInt(4), RMul(u, v)), RInt(0), RSub(RSub(RSq(a), u), v))

\* the sign of x - y for two x of breakpoints, in exact arithmetic
BreakpointCmp(x, y) ==
    LET u == RMul(RSq(x.q), x.D)
        v == RMul(RSq(y.q), y.D)
        a == RSub(x.p, y.p)
        xplus == RLe(RInt(0), x.q)
        yplus == RLe(RInt(0), y.q)
    IN  IF x.inf \/ y.inf THEN (IF x.inf /\ y.inf THEN 0 ELSE IF x.inf THEN 1 ELSE -1)
        \* a + sx sqrt(u) - sy sqrt(v)
        ELSE IF xplus /\ ~yplus THEN SqrtSumSign(a, u, v)
        ELSE IF ~xplus /\ yplus THEN -SqrtSumSign(RNeg(a), u, v)
        ELSE IF xplus THEN SqrtDiffSign(u, v, RNeg(a))
        ELSE SqrtDiffSign(v, u, RNeg(a))

\* InternalVD.calculate_breakpoint of the internal nodes of a beachline, in
\* in-order
BreakpointsInOrder(N, r, directrix) ==
    LET ino == InOrderInternals(N, r)
    IN  [k \in 1..Len(ino) |->
            get_parabola_intersection(sites[N[ino[k]].internal[1]],
                                      sites[N[ino[k]].internal[2]], directrix)]

\* the breakpoints after a site was inserted, under the sweepline of the site
BreakpointsAfterSite == BreakpointsInOrder(nodes', root', sites[prev_site'][2])

SiteInserted == pc = "run" /\ n_sites' = n_sites + 1

KeyY(ev) ==
    LET Root(n) == CHOOSE k \in 0..n : k * k = n
        Sum(y, r2) == RAdd(y, Rat(Root(r2[1]), Root(r2[2])))
    IN  Sum(EventPointAfter(ev).center[2], EventPointAfter(ev).radius2)

RationalRoot(r) ==
    LET Square(n) == \E k \in 0..n : k * k = n
    IN  Square(r[1]) /\ Square(r[2])

CandidateCalls(j) ==
    LET node == events[j].node
        nodeL == get_predecessor(nodes, root, node)
        nodeR == get_successor(nodes, root, node)
        nodeLL == IF nodeL = None THEN None ELSE get_predecessor(nodes, root, nodeL)
        nodeRR == IF nodeR = None THEN None ELSE get_successor(nodes, root, nodeR)
    IN  {t \in {<<nodeLL, nodeL, nodeR>>, <<nodeL, nodeR, nodeRR>>} :
            /\ t[1] # None /\ t[2] # None /\ t[3] # None
            /\ is_right(sites[nodes[t[3]].value], sites[nodes[t[2]].value],
                        sites[nodes[t[1]].value])}

\* the candidate of the call t
Candidate(t) ==
    make_circle_event(sites[nodes[t[1]].value], sites[nodes[t[2]].value],
                      sites[nodes[t[3]].value])

\* the round has pushed the candidate of the call t for its middle arc,
\* bound the two to each other and deactivated the event old
Adopted(t, old) ==
    /\ ~events'[old].active
    /\ nodes'[t[2]].circle > Len(events)
    /\ <<"circle", nodes'[t[2]].circle>> \in queue'
    /\ events'[nodes'[t[2]].circle].center = Candidate(t).center
    /\ events'[nodes'[t[2]].circle].radius2 = Candidate(t).radius2
    /\ events'[nodes'[t[2]].circle].node = t[2]
    /\ events'[nodes'[t[2]].circle].active

\* the round has pushed no event for the middle arc of the call t, and the
\* event old is active and bound to the arc as before
Kept(t, old) ==
    /\ events'[old].active
    /\ nodes'[t[2]].circle = old
    /\ events'[old].node = t[2]
    /\ \A k \in (Len(events) + 1)..Len(events') : events'[k].node # t[2]

\* the circle events that the round handles as active
HandledNow == {ev[2] : ev \in {e \in PoppedEvents : e[1] = "circle" /\ events[e[2]].active}}


RECURSIVE InOrder(_, _)
InOrder(N, i) ==
    IF i = None THEN <<>>
    ELSE IF N[i].kind = "leaf" THEN <<i>>
    ELSE InOrder(N, N[i].left) \o <<i>> \o InOrder(N, N[i].right)

\* a site was inserted by the branch of TreeVD._insert that splits an arc
SiteSplitsArc == SiteInserted /\ n_sites >= 1 /\ ~colinear_points'

\* the round has put the arcs pj, pi, pj and the breakpoints (pj, pi) and
\* (pi, pj) at the place k of the arc pj of the beachline old, and new is the
\* beachline after it
SplitAt(old, new, k, pj, pi) ==
    /\ Len(new) = Len(old) + 4
    /\ \A i \in 1..(k - 1) : new[i] = old[i]
    /\ \A i \in (k + 1)..Len(old) : new[i + 4] = old[i]
    /\ \A i \in k..(k + 4) : new[i] > Len(nodes)
    /\ \A i, j \in k..(k + 4) : new[i] = new[j] => i = j
    /\ \A i \in {k, k + 2, k + 4} : nodes'[new[i]].kind = "leaf"
    /\ nodes'[new[k]].value = pj
    /\ nodes'[new[k + 2]].value = pi
    /\ nodes'[new[k + 4]].value = pj
    /\ \A i \in {k + 1, k + 3} : nodes'[new[i]].kind = "internal"
    /\ nodes'[new[k + 1]].internal = <<pj, pi>>
    /\ nodes'[new[k + 3]].internal = <<pi, pj>>
    \* one record of endpoints for the two, new and empty
    /\ Len(vedges') = Len(vedges) + 1
    /\ nodes'[new[k + 1]].edge = Len(vedges')
    /\ nodes'[new[k + 3]].edge = Len(vedges')
    /\ vedges'[Len(vedges')] = <<None, None>>
    /\ \A e \in 1..Len(vedges) : vedges'[e] = vedges[e]
    \* the event of the arc that was split is deactivated
    /\ nodes[old[k]].circle # None => ~events'[nodes[old[k]].circle].active
    \* the other arcs and breakpoints and the other events are as they were
    /\ \A i \in (1..Len(old)) \ {k} :
            /\ nodes'[old[i]].kind = nodes[old[i]].kind
            /\ nodes'[old[i]].value = nodes[old[i]].value
            /\ nodes'[old[i]].circle = nodes[old[i]].circle
            /\ nodes'[old[i]].internal = nodes[old[i]].internal
            /\ nodes'[old[i]].edge = nodes[old[i]].edge
    /\ \A e \in 1..Len(events) : e # nodes[old[k]].circle => events'[e] = events[e]

\* C23: a site inserted when the sites so far are not all on one horizontal
\* line takes the place of one arc pj of the beachline by the arcs pj, pi,
\* pj, in that order, with the breakpoints (pj, pi) and (pi, pj) between
\* them, which share one new record of endpoints with no endpoint set; the
\* circle event of that arc, if it has one, is deactivated, and every other
\* arc, breakpoint and circle event is as it was.
C23_SiteSplitsOneArc ==
    [][SiteSplitsArc =>
        LET Split(old, new) ==
                \E k \in 1..Len(old) :
                    /\ nodes[old[k]].kind = "leaf"
                    /\ SplitAt(old, new, k, nodes[old[k]].value, prev_site')
        IN  Split(InOrder(nodes, root), InOrder(nodes', root'))]_vars

\* a site has split an arc that had a pending circle event: the event is
\* not active, and its arc, out of the beachline, has no event
C23_Witness ==
    /\ pc = "run"
    /\ err = ""
    /\ ~colinear_points
    /\ \E e \in 1..Len(events) :
            /\ ~events[e].active
            /\ nodes[events[e].node].circle = None
            /\ events[e].node \notin Beachline(nodes, root)

\* the place of the node n in the sequence seq
PlaceOf(seq, n) == CHOOSE k \in 1..Len(seq) : seq[k] = n

\* the records of endpoints that have two endpoints, of two vertices
ClosedOnTwoVertices(ve) == {r \in ClosedEdges(ve) : ve[r][1] # ve[r][2]}

\* the round has given the vertex v to the records of the breakpoints bleft
\* and bright, which it has removed, and of the breakpoint bnew, and has made
\* one pair of half-edges for each record of closing
VertexAssigned(v, bleft, bright, bnew, closing) ==
    /\ points'[v].xy \in {events[j].center : j \in HandledNow}
    /\ \E k \in 1..Len(vertices') : vertices'[k] = v
    /\ v \in {vedges'[nodes[bleft].edge][1], vedges'[nodes[bleft].edge][2]}
    /\ v \in {vedges'[nodes[bright].edge][1], vedges'[nodes[bright].edge][2]}
    /\ nodes'[bnew].edge > Len(vedges)
    /\ vedges'[nodes'[bnew].edge] = <<v, None>>
    /\ {bleft, bright} \cap Beachline(nodes', root') = {}
    /\ n_edges' = n_edges + Cardinality(closing)
    /\ Len(edges') = Len(edges) + 2 * Cardinality(closing)
    /\ \A r \in closing :
            /\ r \notin ClosedEdges(vedges)
            /\ \E e \in (Len(edges) + 1)..Len(edges') :
                    /\ edges'[e].src = vedges'[r][1] /\ edges'[e].dest = vedges'[r][2]
                    /\ edges'[edges'[e].twin].src = vedges'[r][2]
                    /\ edges'[edges'[e].twin].dest = vedges'[r][1]

\* C24: handling an active circle event gives one vertex to the records of
\* endpoints of the new breakpoint and of the two breakpoints removed, and
\* makes a pair of half-edges, counted in n_edges, for each of the two whose
\* record has two distinct vertices by it; in the whole run a record gives
\* one pair of half-edges at most: the pairs are as many as the records with
\* two distinct vertices.
C24_OneVertexOnePair ==
    /\ [](pc = "run" /\ err = "" =>
            /\ n_edges = Cardinality(ClosedOnTwoVertices(vedges))
            /\ Len(edges) = 2 * n_edges)
    /\ [][\A j \in HandledNow : err' = "" =>
            LET Removed(old, new, k) ==
                    \E v \in 1..Len(points') :
                        VertexAssigned(v, old[k - 1], old[k + 1],
                                       new[PlaceOf(new, old[k - 2]) + 1],
                                       {nodes[old[k - 1]].edge, nodes[old[k + 1]].edge}
                                            \cap ClosedOnTwoVertices(vedges'))
                Arc(old, new) == Removed(old, new, PlaceOf(old, events[j].node))
            IN  Arc(InOrder(nodes, root), InOrder(nodes', root'))]_vars

\* two circle events were handled and a record of endpoints has two distinct
\* vertices
C24_Witness ==
    /\ pc = "run"
    /\ err = ""
    /\ Cardinality(Handled) >= 2
    /\ ClosedOnTwoVertices(vedges) # {}

\* the sites popped so far lie on one horizontal line
OneLine(S) == \A a, b \in S : sites[a][2] = sites[b][2]

\* the round has put the arc pi to the right of the rightmost arc pj, with
\* the breakpoint (pj, pi) between them, and its twin (pi, pj) at the end of
\* colinear_nodes
AppendedRight(old, new, pj, pi) ==
    /\ Len(new) = Len(old) + 2
    /\ \A i \in 1..(Len(old) - 1) : new[i] = old[i]
    /\ \A i \in Len(old)..Len(new) : new[i] > Len(nodes)
    /\ nodes'[new[Len(old)]].kind = "leaf" /\ nodes'[new[Len(old)]].value = pj
    /\ nodes'[new[Len(new)]].kind = "leaf" /\ nodes'[new[Len(new)]].value = pi
    /\ nodes'[new[Len(old) + 1]].kind = "internal"
    /\ nodes'[new[Len(old) + 1]].internal = <<pj, pi>>
    /\ Len(colinear_nodes') = Len(colinear_nodes) + 1
    /\ SubSeq(colinear_nodes', 1, Len(colinear_nodes)) = colinear_nodes
    /\ LET twin == colinear_nodes'[Len(colinear_nodes')]
       IN  /\ twin > Len(nodes)
           /\ twin \notin Beachline(nodes', root')
           /\ nodes'[twin].kind = "internal"
           /\ nodes'[twin].internal = <<pi, pj>>
           /\ nodes'[twin].edge = nodes'[new[Len(old) + 1]].edge
           /\ nodes'[twin].edge = Len(vedges) + 1
           /\ Len(vedges') = Len(vedges) + 1
           /\ vedges'[Len(vedges')] = <<None, None>>

\* C25: while the sites inserted so far have one y, _colinear_points is set
\* and each insertion after the first adds one arc, to the right of the
\* rightmost arc pj, and the breakpoint (pj, pi), and appends the twin
\* (pi, pj), on the same record of endpoints, to colinear_nodes; the flag is
\* cleared by the first site of another y, stays cleared, and colinear_nodes
\* does not change from then on.
C25_ColinearPhase ==
    /\ [](pc = "run" /\ err = "" => (colinear_points <=> OneLine(PoppedSites)))
    /\ [][/\ SiteInserted /\ n_sites >= 1 /\ colinear_points' =>
                LET Right(old, new) ==
                        AppendedRight(old, new, nodes[old[Len(old)]].value, prev_site')
                IN  Right(InOrder(nodes, root), InOrder(nodes', root'))
          /\ ~colinear_points => ~colinear_points' /\ colinear_nodes' = colinear_nodes]_vars

\* two sites were appended on the line of the first, and a site of another
\* y has cleared the flag
C25_Witness ==
    /\ pc = "run"
    /\ err = ""
    /\ ~colinear_points
    /\ Len(colinear_nodes) >= 2

\* the active circle events of the queue
QueuedActive == {j \in 1..Len(events) : events[j].active /\ <<"circle", j>> \in queue}

\* the node is an arc of the beachline, not the root, with an arc on either
\* side
InteriorArc(n) ==
    /\ n \in Beachline(nodes, root)
    /\ nodes[n].kind = "leaf"
    /\ n # root
    /\ get_predecessor(nodes, root, n) # None
    /\ get_successor(nodes, root, n) # None

\* the arc has no circle event, or one that is not active
NoActiveCircle(n) == nodes[n].circle = None \/ ~events[nodes[n].circle].active

\* the assertions of TreeVD.delete_node
DeleteNodeAssertions ==
    {"delete_node: assert node is not self._root",
     "delete_node: assert replacement is not None",
     "delete_node: assert internal is not self._root",
     "delete_node: current.parent",
     "delete_node: assert _internal is node._value"}

\* C26: the arc of every active circle event of the queue, which is the arc
\* that the loop passes to delete_node when it pops the event, is a leaf of
\* the beachline, not the root, with a predecessor and a successor; the
\* leftmost and the rightmost arc have no active circle event; no assertion
\* of delete_node fails.
C26_DeletedArcIsInterior ==
    /\ err \notin DeleteNodeAssertions
    /\ pc = "run" /\ err = "" =>
            /\ \A j \in QueuedActive : InteriorArc(events[j].node)
            /\ root # None =>
                    /\ NoActiveCircle(descend(nodes, root, "left"))
                    /\ NoActiveCircle(descend(nodes, root, "right"))

\* an arc was deleted and the arc of another event waits in the queue
C26_Witness ==
    /\ pc = "run"
    /\ err = ""
    /\ Handled # {}
    /\ QueuedActive # {}

\* the number of endpoints of a record of endpoints
EndpointsSet(r) == Cardinality({i \in 1..2 : vedges[r][i] # None})

\* the left and the right breakpoint of the arc that the round deletes have
\* two records of endpoints, not one
DeletedArcHasTwoRecords ==
    \A j \in HandledNow :
        LET Arc(old, k) == nodes[old[k - 1]].edge # nodes[old[k + 1]].edge
        IN  Arc(InOrder(nodes, root), PlaceOf(InOrder(nodes, root), events[j].node))

\* C27: between the events of run the record of endpoints of every
\* breakpoint of the beachline and of every entry of colinear_nodes has one
\* endpoint at most, and none when two breakpoints of the beachline share
\* it, so that add_endpoint is never called on a closed record: its
\* assertion never fails, nor does the assertion of the same in
\* _bound_voronoi_diagram.  The two breakpoints of a deleted arc never share
\* a record.
C27_OpenRecords ==
    /\ [](err \notin {"add_endpoint: assert not self.is_closed()",
                      "_bound_voronoi_diagram: assert not node.edge.is_closed()"})
    /\ [](pc = "run" /\ err = "" =>
            /\ \A b \in Breakpoints : EndpointsSet(nodes[b].edge) <= 1
            /\ \A k \in 1..Len(colinear_nodes) : EndpointsSet(nodes[colinear_nodes[k]].edge) <= 1
            /\ \A b, c \in Breakpoints :
                    b # c /\ nodes[b].edge = nodes[c].edge => EndpointsSet(nodes[b].edge) = 0)
    /\ [][DeletedArcHasTwoRecords]_vars

\* a circle event was handled, a breakpoint of the beachline has a record
\* with one endpoint and two others share an empty record
C27_Witness ==
    /\ pc = "run"
    /\ err = ""
    /\ Handled # {}
    /\ \E b \in Breakpoints : EndpointsSet(nodes[b].edge) = 1
    /\ \E b, c \in Breakpoints : b # c /\ nodes[b].edge = nodes[c].edge

CircleNow(j) ==
    LET node == events[j].node
        Of(nodeL, nodeR) ==
            make_circle_event(sites[nodes[nodeL].value], sites[nodes[node].value],
                              sites[nodes[nodeR].value])
    IN  Of(get_predecessor(nodes, root, node), get_successor(nodes, root, node))

\* the sites of the arcs on either side of the arc of the event j, as they
\* are now
OuterFociNow(j) ==
    <<nodes[get_predecessor(nodes, root, events[j].node)].value,
      nodes[get_successor(nodes, root, events[j].node)].value>>

\* C29 as stated: when the loop handles an active circle event, the sites of
\* the predecessor and of the successor of its arc are the two outer sites
\* that the circle of the event was computed from.
C29_HandledTripleIsConsecutive ==
    [][\A j \in HandledNow : events[j].foci = OuterFociNow(j)]_vars

\* C29, amended: when the loop handles an active circle event, the circle
\* through the sites of the predecessor, of the arc and of the successor is
\* the circle of the event, and these three turn the right way; the outer
\* sites may be other than those that the event was computed from.
C29_HandledCircleIsCurrent ==
    [][\A j \in HandledNow :
         /\ CircleNow(j) # NoCircle
         /\ CircleNow(j).center = events[j].center
         /\ CircleNow(j).radius2 = events[j].radius2
         /\ is_right(sites[OuterFociNow(j)[2]], sites[nodes[events[j].node].value],
                     sites[OuterFociNow(j)[1]])]_vars

\* the next event to pop is active and was computed from outer sites other
\* than those of the arcs now around its arc
C29_Witness ==
    /\ pc = "run"
    /\ err = ""
    /\ \E j \in QueuedActive :
            /\ <<"circle", j>> \in Poppable
            /\ events[j].foci # OuterFociNow(j)
            /\ CircleNow(j) # NoCircle
            /\ CircleNow(j).center = events[j].center

\* the arcs of a beachline
Arcs(N, r) == {n \in Beachline(N, r) : N[n].kind = "leaf"}

\* a number that every round of the loop of run makes smaller: a site
\* popped makes two arcs and two events at most, a circle event handled
\* takes one arc away and makes two events at most
Rounds(q, N, r) ==
    Cardinality(q) + 6 * Cardinality({ev \in q : ev[1] = "site"}) + 2 * Cardinality(Arcs(N, r))

\* C30: run comes to the end of its loop, the queue empty: while the queue is
\* not empty a round can be run, every round makes Rounds, a natural number,
\* smaller, and no round fails, so that the program is past run with the
\* queue empty only.  Every round pops one event and pushes circle events
\* only, new ones, so that a site is popped once; a round that handles an
\* active circle event takes the arc of the event, and no other, out of the
\* beachline; the circle events ever pushed are at most two for each site
\* popped and two for each event handled, the events handled and the arcs
\* left are together less than twice the sites popped, hence the events are
\* less than six times the sites.
C30_RunTerminates ==
    /\ [](/\ pc = "run" /\ queue # {} => Poppable # {}
          /\ pc \in {"done", "failed"} => queue = {}
          /\ pc = "run" /\ err = "" =>
                /\ Len(events) <= 2 * Cardinality(PoppedSites) + 2 * Cardinality(Handled)
                /\ PoppedSites # {} =>
                        Cardinality(Handled) + Cardinality(Arcs(nodes, root))
                            <= 2 * Cardinality(PoppedSites) - 1
                /\ Len(events) <= 6 * Len(sites))
    /\ [][pc = "run" /\ pc' = "run" =>
            /\ Cardinality(PoppedEvents) = 1
            /\ PoppedEvents \subseteq Poppable
            /\ \A ev \in PushedEvents : ev[1] = "circle" /\ ev[2] > Len(events)
            /\ Rounds(queue', nodes', root') < Rounds(queue, nodes, root)
            /\ \A j \in HandledNow :
                    Arcs(nodes', root') = Arcs(nodes, root) \ {events[j].node}]_vars

\* run is at the end of its loop: every site was popped, circle events were
\* handled and one that was not active was dropped
C30_Witness ==
    /\ pc = "run"
    /\ err = ""
    /\ queue = {}
    /\ Len(sites) = MaxSites
    /\ Cardinality(Handled) >= 2
    /\ \E j \in 1..Len(events) : ~events[j].active

====
